---- MODULE Spec2Model ----
(***************************************************************************)
(* Batch ingestion of OCR invoice files (link-ledger).                     *)
(*                                                                         *)
(* BatchInvoiceProcessor.process_file_list / process_single_file           *)
(* (batch_processor.py) and InvoiceExtractor.process_invoice               *)
(* (invoice_extractor.py) over the Django models of models.py.             *)
(*                                                                         *)
(* The relational store is modelled as one set of rows per table.  Every   *)
(* row carries the field `by`: 0 for a committed row, w for a row written  *)
(* by the still open transaction of worker w.  A worker reads the          *)
(* committed rows and its own (read committed).  process_single_file is    *)
(* decorated with transaction.atomic, so its writes are committed when it  *)
(* returns and rolled back when it raises.                                 *)
(***************************************************************************)
EXTENDS Integers, Sequences, FiniteSets, TLC

\* ------------------------------------------------------------------ bounds
\* files handed to process_single_file over all batch calls of the two
\* concurrent workers together
MaxFiles == 3
\* files handed to process_single_file over all batch calls of a single worker
MaxSeqFiles == 3
\* batch calls a single worker makes
MaxCalls == 2
\* batch calls of each of the two concurrent workers, and files of the second
\* one (the first one takes the rest)
MaxConcurrent == 1
\* rules in a list handed to find_pattern on its own
MaxRules == 2
\* phrases in a text searched by find_pattern on its own
MaxPhrases == 2
\* characters of a text handed to parse_amount on its own
MaxChars == 6
\* lines of a text handed to find_amounts on its own
MaxLines == 3
\* pages, blocks and lines together of an OCR structure that is flattened
MaxNodes == 6
\* lines a text of the Amazon scenario holds besides the five of the scenario
MaxExtra == 1
\* workflow runs started
MaxWorkflows == 1
\* OCR exports made
MaxExports == 2
\* failures of the storage, the OCR model, the workflow engine and the worker
MaxFaults == 1
\* files handed to process_single_file over all calls of a worker whose
\* files keep failing
MaxFailingFiles == 4
\* entries of the files list of a batch upload request
MaxUpload == 2

Workers == {1, 2}

None == "None"

\* ------------------------------------------------------- the OCR documents
\* A Decimal is kept as its digits before and after the point.
Dec(i, f) == [is_none |-> FALSE, int |-> i, frac |-> f]
\* the Python None where a Decimal is expected
NoDecimal == [is_none |-> TRUE, int |-> <<>>, frac |-> <<>>]

AmazonId == "AEU-INV-IT-2020-1016055"

\* OCR payloads by file path: metadata.original_filename (None when the
\* payload has no metadata), the number of pages and the recognised text:
\* its lines in page, block and line order, those the extractor's patterns
\* look for.
FileSystem ==
    ("a.json" :> [original_filename |-> "scan_a.pdf", pages |-> 1,
                  text |-> <<AmazonId, "Amazon", "IT08973230967", "SENSIDEV",
                             "Zahlbetrag 107,16",
                             "Rechnungsdatum 9 November 2020">>])
 @@ ("b.json" :> [original_filename |-> None, pages |-> 2,
                  text |-> <<AmazonId, "Amazon", "IT08973230967">>])
 @@ ("c.json" :> [original_filename |-> None, pages |-> 0, text |-> <<>>])
 @@ ("d.json" :> [original_filename |-> None, pages |-> 1,
                  text |-> <<AmazonId, "Amazon", "IT08973230967",
                             "Rechnungsdatum 31 Februar 2020">>])
 @@ ("e.json" :> [original_filename |-> None, pages |-> 1,
                  text |-> <<"Invoice Number: INV-7",
                             "Zahlbetrag 1.234.567.890.123.456,00">>])
 @@ ("f.json" :> [original_filename |-> None, pages |-> 1,
                  text |-> <<"Rechnungsnummer: RE-1", "USt. Gesamt 0,00">>])
 @@ ("g.json" :> [original_filename |-> "scan_a.pdf", pages |-> 1,
                  text |-> <<"Invoice Number: INV-7", "Zahlbetrag 107,16">>])
 @@ ("h.json" :> [original_filename |-> None, pages |-> 1,
                  text |-> <<"Rechnungsnummer: RE-1", "Zahlbetrag 107,16">>])

\* the paths a caller may pass; missing.json is not on disk
Paths == DOMAIN FileSystem \cup {"missing.json"}

\* the paths two concurrent workers are given: two files with the same
\* invoice number of the same supplier, one that is ingested and one that
\* fails after its parties were resolved
ConcurrentPaths == {"a.json", "d.json"}

\* the paths the batch calls of a single worker are given
BatchPaths == {"a.json", "b.json", "c.json", "d.json", "e.json", "missing.json"}

\* the paths given to a worker that also reprocesses: a file that is
\* ingested, one without invoice number, one that fails after its parties
\* were resolved and one that names neither supplier nor customer
RetryPaths == {"a.json", "c.json", "d.json", "f.json"}

\* the paths given to a worker that reprocesses files that keep failing: a
\* file without invoice number, one whose date does not parse, and the file
\* after whose ingestion the latter is re-linked
FailingPaths == {"a.json", "c.json", "d.json"}

\* the paths given to a worker whose files name no known party: two files
\* with one invoice number, and a file that fails
UnknownPaths == {"f.json", "h.json", "c.json"}

\* the paths given to a worker whose files share a filename: two different
\* OCR files of one original file and a file that fails after being
\* re-linked to the Invoice of the first
SkipPaths == {"a.json", "g.json", "d.json"}

\* Path(file_path).stem
Stem(file_path) ==
    CASE file_path = "a.json" -> "a"
      [] file_path = "b.json" -> "b"
      [] file_path = "c.json" -> "c"
      [] file_path = "d.json" -> "d"
      [] file_path = "e.json" -> "e"
      [] file_path = "f.json" -> "f"
      [] file_path = "g.json" -> "g"
      [] file_path = "h.json" -> "h"
      [] OTHER -> "missing"

\* ---------------------------------------------------------- the extractor
\* the lines of a text, in no order
Phrases(text) == {text[k] : k \in 1..Len(text)}

\* ' '.join(strings)
RECURSIVE Join(_)
Join(strings) ==
    IF strings = <<>> THEN ""
    ELSE IF Len(strings) = 1 THEN Head(strings)
    ELSE Head(strings) \o " " \o Join(Tail(strings))

\* the text block of an OCR line (its geometry is carried along unread)
TextBlock(line) ==
    [text |-> Join(line.words), words |-> line.words,
     confidence |-> line.objectness_score]

\* for line in block.get('lines', []): texts.append(...)
RECURSIVE BlockLines(_)
BlockLines(lines) ==
    IF lines = <<>> THEN <<>>
    ELSE <<TextBlock(Head(lines))>> \o BlockLines(Tail(lines))

\* for block in page.get('blocks', [])
RECURSIVE PageLines(_)
PageLines(blocks) ==
    IF blocks = <<>> THEN <<>>
    ELSE BlockLines(Head(blocks)) \o PageLines(Tail(blocks))

\* for page in self.ocr_data.get('pages', [])
RECURSIVE DocumentLines(_)
DocumentLines(pages) ==
    IF pages = <<>> THEN <<>>
    ELSE PageLines(Head(pages)) \o DocumentLines(Tail(pages))

\* mutant: a line the OCR is not confident of is left out
extract_text_blocks_ConfidentOnly(ocr_data) ==
    LET Confident(block) == block.confidence >= 5
    IN SelectSeq(DocumentLines(IF ocr_data.has_pages THEN ocr_data.pages ELSE <<>>),
                 Confident)

\* _extract_text_blocks: a payload without the key 'pages' has no page
extract_text_blocks(ocr_data) ==
    DocumentLines(IF ocr_data.has_pages THEN ocr_data.pages ELSE <<>>)

\* the texts of the text blocks
RECURSIVE LineTexts(_)
LineTexts(text_blocks) ==
    IF text_blocks = <<>> THEN <<>>
    ELSE <<Head(text_blocks).text>> \o LineTexts(Tail(text_blocks))

\* InvoiceExtractor.__init__: text_blocks and full_text
InvoiceExtractor(ocr_data) ==
    LET text_blocks == extract_text_blocks(ocr_data)
    IN [text_blocks |-> text_blocks, full_text |-> Join(LineTexts(text_blocks))]

\* A rule is a regular expression: the number of its capturing groups and
\* the table of the lines it matches in (re.IGNORECASE), each with the groups
\* of the match, group 0 (the whole match) first.  No match of a rule
\* spans two lines of the texts.
Rule(groups, matches) == [groups |-> groups, matches |-> matches]

AmazonRule == Rule(0, AmazonId :> <<AmazonId>>)
RechnungsnummerRule ==
    Rule(1, "Rechnungsnummer: RE-1" :> <<"Rechnungsnummer: RE-1", "RE-1">>)
InvoiceRule == Rule(1, "Invoice Number: INV-7" :> <<"Invoice Number: INV-7", "INV-7">>)
FacturaRule == Rule(1, "Factura Nr: F-9" :> <<"Factura Nr: F-9", "F-9">>)

ZahlbetragRule ==
    Rule(1, ("Zahlbetrag 1.234.567.890.123.456,00" :>
            <<"Zahlbetrag 1.234.567.890.123.456,00", "1.234.567.890.123.456,00">>)
         @@ ("Zahlbetrag 107,16" :>
            <<"Zahlbetrag 107,16", "107,16">>))
\* [0-9.,]+ also matches a lone ','
TotalRule ==
    Rule(1, ("Total," :>
            <<"Total,", ",">>))
\* 'Gesamt' followed by a number is also what a tax line holds
GesamtRule ==
    Rule(1, ("USt. Gesamt 0,00" :>
            <<"Gesamt 0,00", "0,00">>)
         @@ ("USt. Gesamt 107,16" :>
            <<"Gesamt 107,16", "107,16">>)
         @@ ("USt. Gesamt 119,16" :>
            <<"Gesamt 119,16", "119,16">>)
         @@ ("USt. Gesamt 19,00" :>
            <<"Gesamt 19,00", "19,00">>))

RechnungsdatumRule ==
    Rule(1, ("Rechnungsdatum 9 November 2020" :>
                <<"Rechnungsdatum 9 November 2020", "9 November 2020">>)
         @@ ("Rechnungsdatum 31 Februar 2020" :>
                <<"Rechnungsdatum 31 Februar 2020", "31 Februar 2020">>))

VatLiteralRule == Rule(0, "IT08973230967" :> <<"IT08973230967">>)
UStIdRule == Rule(1, "USt-IDNr. DE811569869" :> <<"USt-IDNr. DE811569869", "DE811569869">>)

\* match.group(1) if match.groups() else match.group(0)
MatchResult(pattern, match) ==
    IF pattern.groups > 0 THEN match[2] ELSE match[1]

\* mutant: the last rule of the list that matches decides
find_pattern_LastWins(patterns, text) ==
    LET matching == {k \in 1..Len(patterns) :
                        DOMAIN patterns[k].matches \cap Phrases(text) # {}}
    IN IF matching = {} THEN None
       ELSE LET k == CHOOSE j \in matching : \A i \in matching : i <= j
                hits == {n \in 1..Len(text) : text[n] \in DOMAIN patterns[k].matches}
                first == CHOOSE n \in hits : \A m \in hits : n <= m
            IN MatchResult(patterns[k], patterns[k].matches[text[first]])

\* find_pattern: the rules are searched in list order and the first one that
\* matches decides; re.search returns the leftmost match of the rule, which
\* is in the first line the rule matches in
RECURSIVE find_pattern(_, _)
find_pattern(patterns, text) ==
    IF patterns = <<>> THEN None
    ELSE LET pattern == Head(patterns)
             hits == {n \in 1..Len(text) : text[n] \in DOMAIN pattern.matches}
         IN IF hits # {}
            THEN LET first == CHOOSE n \in hits : \A m \in hits : n <= m
                 IN MatchResult(pattern, pattern.matches[text[first]])
            ELSE find_pattern(Tail(patterns), text)

find_invoice_number(ocr) ==
    find_pattern(<<AmazonRule, RechnungsnummerRule, InvoiceRule, FacturaRule>>,
                 ocr.text)

\* The characters of the strings of the texts, in order.  A digit, '.', ','
\* and the blank are one element each; a run of other characters, which the
\* amount pattern and the containment tests never look into, is one element.
Chars(s) ==
    CASE s = "," ->
            <<",">>
      [] s = "0,00" ->
            <<"0", ",", "0", "0">>
      [] s = "1.234.567.890.123.456,00" ->
            <<"1", ".", "2", "3", "4", ".", "5", "6", "7", ".", "8", "9", "0", ".", "1", "2", "3", ".", "4", "5", "6", ",", "0", "0">>
      [] s = "107,16" ->
            <<"1", "0", "7", ",", "1", "6">>
      [] s = "119,16" ->
            <<"1", "1", "9", ",", "1", "6">>
      [] s = "19,00" ->
            <<"1", "9", ",", "0", "0">>
      [] s = "31 Februar 2020" ->
            <<"3", "1", " ", "Februar", " ", "2", "0", "2", "0">>
      [] s = "9 November 2020" ->
            <<"9", " ", "November", " ", "2", "0", "2", "0">>
      [] s = AmazonId ->
            <<"AEU-INV-IT-", "2", "0", "2", "0", "-", "1", "0", "1", "6", "0", "5", "5">>
      [] s = "Amazon" ->
            <<"Amazon">>
      [] s = "IT08973230967" ->
            <<"IT", "0", "8", "9", "7", "3", "2", "3", "0", "9", "6", "7">>
      [] s = "Invoice Number: INV-7" ->
            <<"Invoice", " ", "Number:", " ", "INV-", "7">>
      [] s = "Rechnungsdatum 31 Februar 2020" ->
            <<"Rechnungsdatum", " ", "3", "1", " ", "Februar", " ", "2", "0", "2", "0">>
      [] s = "Rechnungsdatum 9 November 2020" ->
            <<"Rechnungsdatum", " ", "9", " ", "November", " ", "2", "0", "2", "0">>
      [] s = "Rechnungsnummer: RE-1" ->
            <<"Rechnungsnummer:", " ", "RE-", "1">>
      [] s = "SENSIDEV" ->
            <<"SENSIDEV">>
      [] s = "Total," ->
            <<"Total", ",">>
      [] s = "USt 10,00" ->
            <<"USt", " ", "1", "0", ",", "0", "0">>
      [] s = "USt. Gesamt 0,00" ->
            <<"USt", ".", " ", "Gesamt", " ", "0", ",", "0", "0">>
      [] s = "USt. Gesamt 107,16" ->
            <<"USt", ".", " ", "Gesamt", " ", "1", "0", "7", ",", "1", "6">>
      [] s = "USt. Gesamt 119,16" ->
            <<"USt", ".", " ", "Gesamt", " ", "1", "1", "9", ",", "1", "6">>
      [] s = "USt. Gesamt 19,00" ->
            <<"USt", ".", " ", "Gesamt", " ", "1", "9", ",", "0", "0">>
      [] s = "USt. Gesamt EUR 19,00" ->
            <<"USt", ".", " ", "Gesamt", " ", "EUR", " ", "1", "9", ",", "0", "0">>
      [] s = "Zahlbetrag 1.234.567.890.123.456,00" ->
            <<"Zahlbetrag", " ", "1", ".", "2", "3", "4", ".", "5", "6", "7", ".", "8", "9", "0", ".", "1", "2", "3", ".", "4", "5", "6", ",", "0", "0">>
      [] s = "Zahlbetrag 107,16" ->
            <<"Zahlbetrag", " ", "1", "0", "7", ",", "1", "6">>
      [] s = "Zwischensumme 107,16" ->
            <<"Zwischensumme", " ", "1", "0", "7", ",", "1", "6">>
      [] s = "Zwischensumme 99,14" ->
            <<"Zwischensumme", " ", "9", "9", ",", "1", "4">>

Digits == {"0", "1", "2", "3", "4", "5", "6", "7", "8", "9"}
Separators == {".", ","}

\* [0-9]{0,n} at position i of the text: the number of digits taken
RECURSIVE DigitRun(_, _, _)
DigitRun(text, i, n) ==
    IF n = 0 \/ i > Len(text) THEN 0
    ELSE IF text[i] \notin Digits THEN 0
    ELSE 1 + DigitRun(text, i + 1, n - 1)

\* (?:[.,][0-9]{3})* at position i: the position after the last group taken
RECURSIVE Thousands(_, _)
Thousands(text, i) ==
    IF i <= Len(text) /\ text[i] \in Separators /\ DigitRun(text, i + 1, 3) = 3
    THEN Thousands(text, i + 4)
    ELSE i

\* (?:[.,][0-9]{2})? at position i: the position after it
Cents(text, i) ==
    IF i <= Len(text) /\ text[i] \in Separators /\ DigitRun(text, i + 1, 2) = 2
    THEN i + 3
    ELSE i

\* re.search(r'([0-9]{1,3}(?:[.,][0-9]{3})*(?:[.,][0-9]{2})?)', text): the
\* match starts at the first digit of the text and every part takes as much
\* as it can; <<>> when the text has no digit
AmountMatch(text) ==
    LET digits == {i \in 1..Len(text) : text[i] \in Digits}
    IN IF digits = {} THEN <<>>
       ELSE LET start == CHOOSE i \in digits : \A j \in digits : i <= j
                end == Cents(text, Thousands(text, start + DigitRun(text, start, 3)))
            IN SubSeq(text, start, end - 1)

\* the elements of seq that are not c
RECURSIVE Without(_, _)
Without(seq, c) ==
    IF seq = <<>> THEN <<>>
    ELSE IF Head(seq) = c THEN Without(Tail(seq), c)
    ELSE <<Head(seq)>> \o Without(Tail(seq), c)

\* the position of the first c in seq, Len(seq) + 1 when there is none
RECURSIVE Find(_, _)
Find(seq, c) ==
    IF seq = <<>> THEN 1
    ELSE IF Head(seq) = c THEN 1
    ELSE 1 + Find(Tail(seq), c)

\* mutant: ',' is dropped as well, every digit counts as a whole unit
parse_amount_CommaDropped(text) ==
    LET match == AmountMatch(text)
    IN IF match = <<>> THEN NoDecimal
       ELSE Dec(Without(Without(match, "."), ","), <<>>)

\* parse_amount: the match with '.' dropped and ',' turned into the decimal
\* point is handed to Decimal(), which rejects a second point; the except
\* clause turns that into None
parse_amount(text) ==
    LET match == AmountMatch(text)
        amount_str == Without(match, ".")
        point == Find(amount_str, ",")
        fraction == SubSeq(amount_str, point + 1, Len(amount_str))
    IN IF match = <<>> THEN NoDecimal
       ELSE IF Find(fraction, ",") <= Len(fraction) THEN NoDecimal
       ELSE Dec(SubSeq(amount_str, 1, point - 1), fraction)

DigitValue ==
    [c \in Digits |->
        CASE c = "0" -> 0 [] c = "1" -> 1 [] c = "2" -> 2 [] c = "3" -> 3
          [] c = "4" -> 4 [] c = "5" -> 5 [] c = "6" -> 6 [] c = "7" -> 7
          [] c = "8" -> 8 [] c = "9" -> 9]

\* the number a sequence of digits writes
RECURSIVE ToInt(_)
ToInt(digits) ==
    IF digits = <<>> THEN 0
    ELSE 10 * ToInt(SubSeq(digits, 1, Len(digits) - 1))
         + DigitValue[digits[Len(digits)]]

RECURSIVE Pow10(_)
Pow10(n) == IF n = 0 THEN 1 ELSE 10 * Pow10(n - 1)

\* Decimal a < Decimal b
Less(a, b) ==
    ToInt(a.int \o a.frac) * Pow10(Len(b.frac)) < ToInt(b.int \o b.frac) * Pow10(Len(a.frac))

\* a Decimal is false when it is zero, None is false
IsZero(d) == \A k \in 1..Len(d.int \o d.frac) : (d.int \o d.frac)[k] = "0"
Truthy(d) == ~d.is_none /\ ~IsZero(d)

\* literal in text
Within(literal, text) ==
    \E i \in 0..(Len(text) - Len(literal)) :
        \A j \in 1..Len(literal) : text[i + j] = literal[j]

\* the lines find_amounts looks at
IsSubtotalLine(text) ==
    /\ Within(<<"Zwischensumme">>, text) /\ ~Within(<<"USt">>, text)
    /\ \/ Within(<<"1", "0", "7", ",", "1", "6">>, text)
       \/ Within(<<"9", "9", ",", "1", "4">>, text)
HasZero(text) == Within(<<"0", ",", "0", "0">>, text)
IsTaxLine(text) ==
    \/ Within(<<"USt", ".", " ", "Gesamt">>, text)
    \/ Within(<<"USt">>, text) /\ HasZero(text)

\* amount < amounts.get('total', Decimal('1000'))
TaxBound(amount, amounts) ==
    Less(amount,
         IF amounts.has_total THEN amounts.total ELSE Dec(<<"1", "0", "0", "0">>, <<>>))

\* mutant: a later subtotal line replaces the subtotal already found
ScanLine_SubtotalOverwritten(amounts, text) ==
    LET amount == parse_amount(text)
        with_subtotal ==
            IF IsSubtotalLine(text) /\ Truthy(amount)
            THEN [amounts EXCEPT !.subtotal = amount]
            ELSE amounts
    IN IF ~IsTaxLine(text) THEN with_subtotal
       ELSE IF HasZero(text)
       THEN [with_subtotal EXCEPT !.tax = Dec(<<"0">>, <<"0", "0">>)]
       ELSE IF ~Truthy(amount) THEN with_subtotal
       ELSE IF amounts.has_total /\ amounts.total.is_none
       THEN [with_subtotal EXCEPT !.raised = TRUE]
       ELSE IF TaxBound(amount, amounts)
       THEN [with_subtotal EXCEPT !.tax = amount]
       ELSE with_subtotal

\* one turn of the loop over the text blocks
ScanLine(amounts, text) ==
    LET amount == parse_amount(text)
        with_subtotal ==
            IF IsSubtotalLine(text) /\ Truthy(amount) /\ amounts.subtotal.is_none
            THEN [amounts EXCEPT !.subtotal = amount]
            ELSE amounts
    IN IF ~IsTaxLine(text) THEN with_subtotal
       ELSE IF HasZero(text)
       THEN [with_subtotal EXCEPT !.tax = Dec(<<"0">>, <<"0", "0">>)]
       ELSE IF ~Truthy(amount) THEN with_subtotal
       ELSE IF amounts.has_total /\ amounts.total.is_none
       THEN [with_subtotal EXCEPT !.raised = TRUE]
       ELSE IF TaxBound(amount, amounts)
       THEN [with_subtotal EXCEPT !.tax = amount]
       ELSE with_subtotal

RECURSIVE ScanLines(_, _)
ScanLines(amounts, text_blocks) ==
    IF text_blocks = <<>> \/ amounts.raised THEN amounts
    ELSE ScanLines(ScanLine(amounts, Chars(Head(text_blocks))), Tail(text_blocks))

\* find_amounts: the total from the full text, then the text blocks in
\* order.  has_total tells whether the key 'total' is in the dict (its value
\* is None when parse_amount found no number in the match); a key that was
\* not set is NoDecimal; raised: the comparison of a Decimal with a None
\* total raised TypeError.
find_amounts(ocr) ==
    LET total_str == find_pattern(<<ZahlbetragRule, TotalRule, GesamtRule>>, ocr.text)
    IN ScanLines([has_total |-> total_str # None,
                  total |-> IF total_str # None THEN parse_amount(Chars(total_str))
                            ELSE NoDecimal,
                  subtotal |-> NoDecimal, tax |-> NoDecimal, raised |-> FALSE],
                 ocr.text)

\* a calendar date; NoDate is the Python None where a date is expected
Date(year, month, day) == <<year, month, day>>
NoDate == <<>>

\* month_map, in the order of the dict
month_map ==
    <<"Januar", "Februar", "März", "April", "Mai", "Juni", "Juli", "August",
      "September", "Oktober", "November", "Dezember">>

\* the days of a month of the proleptic Gregorian calendar
DaysIn(year, month) ==
    IF month = 2
    THEN IF (year % 4 = 0 /\ year % 100 # 0) \/ year % 400 = 0 THEN 29 ELSE 28
    ELSE IF month \in {4, 6, 9, 11} THEN 30 ELSE 31

\* datetime(year, month, day) accepts the values
ValidDate(year, month, day) ==
    year >= 1 /\ month \in 1..12 /\ day \in 1..DaysIn(year, month)

\* the position of the first run of n digits, 0 when there is none
FirstDigits(text, n) ==
    LET runs == {i \in 1..Len(text) : DigitRun(text, i, n) = n}
    IN IF runs = {} THEN 0 ELSE CHOOSE i \in runs : \A j \in runs : i <= j

\* datetime.strptime(date_str, fmt) for fmt one of '%d/%m/%Y', '%d-%m-%Y',
\* '%d.%m.%Y' (year_first FALSE) and '%Y-%m-%d' (year_first TRUE): three runs
\* of digits divided by the separator, one or two digits for day and month
\* and four for the year; NoDate when strptime raises ValueError
strptime(date_str, separator, year_first) ==
    LET at == {i \in 1..Len(date_str) : date_str[i] = separator}
        first == CHOOSE i \in at : \A j \in at : i <= j
        second == CHOOSE i \in at : \A j \in at : j <= i
        one == SubSeq(date_str, 1, first - 1)
        two == SubSeq(date_str, first + 1, second - 1)
        three == SubSeq(date_str, second + 1, Len(date_str))
        year == IF year_first THEN one ELSE three
        day == IF year_first THEN three ELSE one
        AllDigits(field) == \A k \in 1..Len(field) : field[k] \in Digits
    IN IF /\ Cardinality(at) = 2
          /\ AllDigits(one) /\ AllDigits(two) /\ AllDigits(three)
          /\ Len(year) = 4 /\ Len(two) \in 1..2 /\ Len(day) \in 1..2
          /\ ValidDate(ToInt(year), ToInt(two), ToInt(day))
       THEN Date(ToInt(year), ToInt(two), ToInt(day))
       ELSE NoDate

\* the formats tried in order, each in its own try
RECURSIVE TryFormats(_, _)
TryFormats(date_str, formats) ==
    IF formats = <<>> THEN NoDate
    ELSE LET parsed == strptime(date_str, Head(formats)[1], Head(formats)[2])
         IN IF parsed # NoDate THEN parsed ELSE TryFormats(date_str, Tail(formats))

\* parse_date: with a German month name in the string, the first one or two
\* digits are the day and the first four digits the year, and strptime runs
\* outside any try: re.search(...).group raises AttributeError when the
\* digits are missing and strptime raises ValueError for a day the month
\* does not have (the message leaves out the data when the day is not even
\* one of 1..31).  Without a month name the formats are tried.
parse_date(date_str) ==
    LET months == {k \in 1..12 : Within(<<month_map[k]>>, date_str)}
        number == CHOOSE k \in months : \A j \in months : k <= j
        day == FirstDigits(date_str, 1)
        year == FirstDigits(date_str, 4)
    IN IF months # {}
       THEN IF day = 0 \/ year = 0
            THEN [raised |-> TRUE,
                  value |-> "'NoneType' object has no attribute 'group'"]
            ELSE IF ValidDate(ToInt(SubSeq(date_str, year, year + 3)), number,
                              ToInt(SubSeq(date_str, day,
                                           day + DigitRun(date_str, day, 2) - 1)))
            THEN [raised |-> FALSE,
                  value |-> Date(ToInt(SubSeq(date_str, year, year + 3)), number,
                                 ToInt(SubSeq(date_str, day,
                                              day + DigitRun(date_str, day, 2) - 1)))]
            ELSE [raised |-> TRUE,
                  value |-> IF ToInt(SubSeq(date_str, day,
                                            day + DigitRun(date_str, day, 2) - 1)) \in 1..31
                            THEN "day is out of range for month"
                            ELSE "time data does not match format '%d/%m/%Y'"]
       ELSE [raised |-> FALSE,
             value |-> TryFormats(date_str, <<<<"/", FALSE>>, <<"-", FALSE>>,
                                             <<".", FALSE>>, <<"-", TRUE>>>>)]

\* no line of the texts matches 'Invoice Date' or 'Data facturii'
InvoiceDateRule == Rule(1, [t \in {} |-> <<>>])
DataFacturiiRule == Rule(1, [t \in {} |-> <<>>])

find_date(ocr) ==
    LET date_str == find_pattern(<<RechnungsdatumRule, InvoiceDateRule, DataFacturiiRule>>,
                                 ocr.text)
    IN IF date_str # None THEN parse_date(Chars(date_str))
       ELSE [raised |-> FALSE, value |-> NoDate]

\* find_company_info: has_vat tells whether the key 'vat_number' is in the
\* returned dict (it is, with value None, when "Amazon" is in the text and
\* no VAT rule matches).
find_company_info(ocr, company_type) ==
    IF company_type = "supplier" /\ "Amazon" \in Phrases(ocr.text)
    THEN [name |-> "Amazon EU S.a r.l.", has_vat |-> TRUE,
          vat_number |-> find_pattern(<<VatLiteralRule, UStIdRule>>, ocr.text)]
    ELSE IF company_type = "customer" /\ "SENSIDEV" \in Phrases(ocr.text)
    THEN [name |-> "SC SENSIDEV SRL", has_vat |-> TRUE,
          vat_number |-> "RO30428638"]
    ELSE [name |-> None, has_vat |-> FALSE, vat_number |-> None]

\* ------------------------------------------------------------------- state
VARIABLES
    documents,      \* Document rows
    jobs,           \* ProcessingJob rows
    companies,      \* Company rows
    currencies,     \* Currency rows
    invoices,       \* Invoice rows
    metadata,       \* ExtractedMetadata rows
    nextId,         \* primary keys each worker has drawn (uuid4: no order between workers)
    pc,             \* where each worker is
    results,        \* BatchInvoiceProcessor.results of each worker's processor
    batch,          \* file_paths of the worker's batch call
    idx,            \* position of the loop over file_paths (1-based)
    loc,            \* locals of process_single_file / process_invoice
    needs_rollback, \* the connection's needs_rollback flag
    outcomes,       \* outcome of each process_single_file of the current call
    runs,           \* the worker's last two batch calls, oldest first
    ncalls,         \* batch calls made by each worker
    submitted,      \* files submitted by each worker
    lastSuccess,    \* <<vat, number, document>> of the latest Success per key
    call,           \* the entry point of each worker's current call
    applied,        \* a function or a view applied on its own: argument and result
    objects,        \* the objects of the storage bucket, by path
    events,         \* the storage events the activity's output caused
    workflows,      \* the FileProcessingWorkflow runs started, oldest first
    activity,       \* the process_file_activity execution of each run
    clock,          \* datetime.now(), as the number of OCR exports made
    settings,       \* settings.SUPABASE_URL and settings.SUPABASE_SERVICE_KEY
    faults,         \* failures of the collaborators so far, lost workers included
    notified        \* responses to the requests the storage sent for the output

store == <<documents, jobs, companies, currencies, invoices, metadata>>
vars == <<documents, jobs, companies, currencies, invoices, metadata, nextId,
          pc, results, batch, idx, loc, needs_rollback, outcomes, runs,
          ncalls, submitted, lastSuccess, call, applied,
          objects, events, workflows, activity, clock, settings, faults,
          notified>>

\* the state of the OCR service: storage, workflow runs, webhook
service == <<objects, events, workflows, activity, clock, settings, faults,
             notified>>

\* no call made yet
NoCall == [kind |-> "none", failed |-> {}]

\* no function applied on its own
NotApplied == [fn |-> "none", arg |-> <<>>, ret |-> None]

\* BatchInvoiceProcessor.__init__
EmptyResults == [successful |-> <<>>, failed |-> <<>>, skipped |-> <<>>, total |-> 0]

\* nothing bound yet in process_single_file
NoLocals == [file_path |-> None, document |-> 0, job |-> 0, invoice_number |-> None,
             supplier |-> 0, customer |-> 0, existing_invoice |-> 0,
             invoice |-> 0, relinked |-> FALSE, exc |-> None, trace |-> {}]

\* no batch call recorded
NoRun == [returned |-> FALSE, files |-> <<>>, outcomes |-> <<>>, invoices |-> {}]

Processors ==
    /\ documents = {} /\ jobs = {} /\ companies = {}
    /\ currencies = {} /\ invoices = {} /\ metadata = {}
    /\ nextId = [w \in Workers |-> 0]
    /\ pc = [w \in Workers |-> "idle"]
    /\ results = [w \in Workers |-> EmptyResults]
    /\ batch = [w \in Workers |-> <<>>]
    /\ idx = [w \in Workers |-> 1]
    /\ loc = [w \in Workers |-> NoLocals]
    /\ needs_rollback = [w \in Workers |-> FALSE]
    /\ outcomes = [w \in Workers |-> <<>>]
    /\ runs = [w \in Workers |-> <<NoRun, NoRun>>]
    /\ ncalls = [w \in Workers |-> 0]
    /\ submitted = [w \in Workers |-> 0]
    /\ lastSuccess = {}
    /\ call = [w \in Workers |-> NoCall]

\* a run not started, and no execution of the activity in flight
NotStarted ==
    [args |-> <<>>, status |-> "none", attempts |-> <<>>, outcome |-> <<>>,
     result |-> <<>>, request |-> <<>>]
NoActivity == [pc |-> "none", args |-> <<>>, file_content |-> "",
               json_data |-> <<>>, steps |-> <<>>, upload_error |-> "",
               outcome |-> <<>>]

\* no run started, nothing stored by the activity
Idle ==
    /\ events = {}
    /\ workflows = [k \in 1..MaxWorkflows |-> NotStarted]
    /\ activity = [k \in 1..MaxWorkflows |-> NoActivity]
    /\ clock = 0 /\ faults = 0
    /\ notified = {}

\* the processors constructed; the OCR service not deployed
Constructed ==
    /\ Processors /\ Idle
    /\ objects = <<>>
    /\ settings = [SUPABASE_URL |-> "", SUPABASE_SERVICE_KEY |-> ""]

\* an empty store, the processors constructed, no call made
Init == Constructed /\ applied = NotApplied

\* ------------------------------------------------------------ the store
\* the rows worker w reads: committed ones and those of its own transaction
Visible(rows, w) == {r \in rows : r.by \in {0, w}}
Committed(rows) == {r \in rows : r.by = 0}

\* statuses with an open transaction (inside process_single_file)
InTransaction == {"supplier", "customer", "check", "relink", "currency",
                  "create", "complete", "except"}

\* leaving the atomic block normally: the rows of w become committed and a
\* pending update of an existing Invoice (the re-link) is applied
CommitRows(rows, w) == {IF r.by = w THEN [r EXCEPT !.by = 0] ELSE r : r \in rows}

\* leaving the atomic block with an exception: the rows of w are dropped
RollbackRows(rows, w) == {r \in rows : r.by # w}

\* DecimalField(max_digits=15, decimal_places=2)
max_digits == 15
decimal_places == 2

\* mutant: the uniqueness constraint is not declared
UniqueViolation_NotEnforced(w, supplier, invoice_number) == FALSE

\* Invoice.Meta.unique_together = [['supplier', 'invoice_number']], as the
\* database enforces it on INSERT by worker w: a visible row with the key is
\* a violation, an uncommitted row of another transaction makes the INSERT
\* wait for that transaction to end.
SameKey(i, supplier, invoice_number) ==
    i.supplier = supplier /\ i.invoice_number = invoice_number
UniqueViolation(w, supplier, invoice_number) ==
    \E i \in Visible(invoices, w) : SameKey(i, supplier, invoice_number)
UniqueWait(w, supplier, invoice_number) ==
    \E i \in invoices : i.by \notin {0, w} /\ SameKey(i, supplier, invoice_number)

\* the n-th primary key worker w draws after those it has drawn so far
NewId(w, n) == Cardinality(Workers) * (nextId[w] + n) + w
Drawn(w, n) == [nextId EXCEPT ![w] = @ + n]

\* ------------------------------------------------------ process_file_list
Lists(n, paths) == UNION {[1..k -> paths] : k \in 0..n}

TakeRun(w) == [returned |-> TRUE, files |-> batch[w], outcomes |-> outcomes[w],
               invoices |-> {<<i.supplier, i.invoice_number>> : i \in Committed(invoices)}]

\* process_file_list up to the loop: total is set, the lists are kept
process_file_list(w, max_files, max_calls, paths) ==
    /\ \/ pc[w] = "idle"
       \/ pc[w] = "returned" /\ call[w].kind = "list"
    /\ ncalls[w] < max_calls
    /\ \E file_paths \in Lists(max_files, paths) :
          /\ submitted[1] + submitted[2] + Len(file_paths) <= max_files
          /\ w # 1 => submitted[w] + Len(file_paths) <= MaxConcurrent
          /\ batch' = [batch EXCEPT ![w] = file_paths]
          /\ results' = [results EXCEPT ![w].total = Len(file_paths)]
          /\ submitted' = [submitted EXCEPT ![w] = @ + Len(file_paths)]
    /\ idx' = [idx EXCEPT ![w] = 1]
    /\ outcomes' = [outcomes EXCEPT ![w] = <<>>]
    /\ ncalls' = [ncalls EXCEPT ![w] = @ + 1]
    /\ pc' = [pc EXCEPT ![w] = "loop"]
    /\ call' = [call EXCEPT ![w] = [kind |-> "list", failed |-> {}]]
    /\ UNCHANGED <<store, nextId, loc, needs_rollback, runs, lastSuccess, applied>>
    /\ UNCHANGED service

\* the loop is over: _print_summary and return self.results
return_results(w) ==
    /\ pc[w] = "loop" /\ idx[w] > Len(batch[w])
    /\ pc' = [pc EXCEPT ![w] = "returned"]
    /\ runs' = [runs EXCEPT ![w] = <<@[2], TakeRun(w)>>]
    /\ UNCHANGED <<store, nextId, results, batch, idx, loc, needs_rollback,
                   outcomes, ncalls, submitted, lastSuccess, call, applied>>
    /\ UNCHANGED service

\* BatchInvoiceProcessor(): a new processor for the next call
new_processor(w) ==
    /\ pc[w] \in {"returned", "raised"}
    /\ pc' = [pc EXCEPT ![w] = "idle"]
    /\ results' = [results EXCEPT ![w] = EmptyResults]
    /\ UNCHANGED <<store, nextId, batch, idx, loc, needs_rollback, outcomes,
                   runs, ncalls, submitted, lastSuccess, call, applied>>
    /\ UNCHANGED service

\* ------------------------------------------------------ InvoiceReprocessor
\* the orders in which a queryset without ordering may yield its rows
Orderings(rows) ==
    {order \in [1..Cardinality(rows) -> rows] :
        \A j, k \in 1..Cardinality(rows) : order[j] = order[k] => j = k}

\* mutant: the query returns one Document per file path
FailedDocuments_OnePerPath(w) ==
    {d \in Visible(documents, w) :
        /\ d.status = "failed"
        /\ \A e \in Visible(documents, w) :
              (e.status = "failed" /\ e.file_path = d.file_path) => e.id >= d.id}

\* mutant: the query keeps the latest failed Document of each file
FailedDocuments_LatestPerPath(w) ==
    {d \in Visible(documents, w) :
        /\ d.status = "failed"
        /\ \A e \in Visible(documents, w) :
              (e.status = "failed" /\ e.file_path = d.file_path) => e.id <= d.id}

\* Document.objects.filter(status='failed')
FailedDocuments(w) == {d \in Visible(documents, w) : d.status = "failed"}

\* reprocess_failed: a new processor runs process_file_list over the
\* file_path of every failed Document
reprocess_failed(w, max_files, max_calls) ==
    /\ pc[w] \in {"idle", "returned", "raised"}
    /\ ncalls[w] < max_calls
    /\ LET failed_docs == FailedDocuments(w)
       IN /\ submitted[1] + submitted[2] + Cardinality(failed_docs) <= max_files
          /\ \E order \in Orderings(failed_docs) :
                batch' = [batch EXCEPT ![w] =
                             [k \in 1..Cardinality(failed_docs) |-> order[k].file_path]]
          /\ results' = [results EXCEPT ![w] =
                [EmptyResults EXCEPT !.total = Cardinality(failed_docs)]]
          /\ submitted' = [submitted EXCEPT ![w] = @ + Cardinality(failed_docs)]
          /\ call' = [call EXCEPT ![w] =
                [kind |-> "failed", failed |-> {d.id : d \in failed_docs}]]
    /\ idx' = [idx EXCEPT ![w] = 1]
    /\ outcomes' = [outcomes EXCEPT ![w] = <<>>]
    /\ ncalls' = [ncalls EXCEPT ![w] = @ + 1]
    /\ pc' = [pc EXCEPT ![w] = "loop"]
    /\ UNCHANGED <<store, nextId, loc, needs_rollback, runs, lastSuccess, applied>>
    /\ UNCHANGED service

\* reprocess_document(document_id) with the id of a stored Document: a new
\* processor runs process_single_file on its file_path (process_file_list is
\* not called, so total is not set) and its return value is returned
reprocess_document(w, max_files, max_calls) ==
    /\ pc[w] \in {"idle", "returned", "raised"}
    /\ ncalls[w] < max_calls
    /\ submitted[1] + submitted[2] + 1 <= max_files
    /\ \E document \in Visible(documents, w) :
          /\ batch' = [batch EXCEPT ![w] = <<document.file_path>>]
          /\ call' = [call EXCEPT ![w] = [kind |-> "document", failed |-> {document.id}]]
    /\ results' = [results EXCEPT ![w] = EmptyResults]
    /\ submitted' = [submitted EXCEPT ![w] = @ + 1]
    /\ idx' = [idx EXCEPT ![w] = 1]
    /\ outcomes' = [outcomes EXCEPT ![w] = <<>>]
    /\ ncalls' = [ncalls EXCEPT ![w] = @ + 1]
    /\ pc' = [pc EXCEPT ![w] = "loop"]
    /\ UNCHANGED <<store, nextId, loc, needs_rollback, runs, lastSuccess, applied>>
    /\ UNCHANGED service

\* ---------------------------------------------------- process_single_file
\* an exception is raised inside the try block
Raise(w, locals, message) ==
    /\ loc' = [loc EXCEPT ![w] = [locals EXCEPT !.exc = message]]
    /\ pc' = [pc EXCEPT ![w] = "except"]

\* process_single_file has returned: the loop goes to the next file
EndAttempt(w, outcome) ==
    /\ idx' = [idx EXCEPT ![w] = @ + 1]
    /\ outcomes' = [outcomes EXCEPT ![w] = Append(@, outcome)]
    /\ pc' = [pc EXCEPT ![w] = "loop"]

\* ocr_data.get('metadata', {}).get('original_filename', file_path.stem)
OriginalFilename(file_path) ==
    IF FileSystem[file_path].original_filename # None
    THEN FileSystem[file_path].original_filename ELSE Stem(file_path)

\* mutant: the check looks for a failed Document instead of a completed one
ExistingCompleted_Failed(w, original_filename) ==
    {d \in Visible(documents, w) :
        d.filename = original_filename /\ d.status = "failed"}

\* mutant: the check compares the stored file_path with the filename
ExistingCompleted_ByPath(w, original_filename) ==
    {d \in Visible(documents, w) :
        d.file_path = original_filename /\ d.status = "completed"}

\* mutant: the check also compares the path of the OCR file
ExistingCompleted_SameFile(w, original_filename) ==
    {d \in Visible(documents, w) :
        /\ d.filename = original_filename /\ d.status = "completed"
        /\ d.file_path = batch[w][idx[w]]}

\* Document.objects.filter(filename=original_filename, status='completed')
ExistingCompleted(w, original_filename) ==
    {d \in Visible(documents, w) :
        d.filename = original_filename /\ d.status = "completed"}

\* mutant: the invoice-number check is left out
NumberMissing_Never(invoice_number) == FALSE

\* if not invoice_number
NumberMissing(invoice_number) == invoice_number = None

\* mutant: the job is created without its Document
NewJob_Unlinked(w, document) ==
    [id |-> NewId(w, 1), document |-> 0,
     success |-> FALSE, error_details |-> "",
     completed_at |-> FALSE, pages_processed |-> 0, by |-> w]

\* ProcessingJob.objects.create(document=document)
NewJob(w, document) ==
    [id |-> NewId(w, 1), document |-> document,
     success |-> FALSE, error_details |-> "",
     completed_at |-> FALSE, pages_processed |-> 0, by |-> w]

\* the try block up to the invoice-number check
load_and_check(w) ==
    /\ pc[w] = "loop" /\ idx[w] <= Len(batch[w])
    /\ LET file_path == batch[w][idx[w]]
           locals == [NoLocals EXCEPT !.file_path = file_path]
       IN IF file_path \notin DOMAIN FileSystem
          THEN \* open() raises
               /\ Raise(w, locals, "No such file or directory")
               /\ UNCHANGED <<store, nextId, results, idx, outcomes>>
          ELSE LET ocr_data == FileSystem[file_path]
                   original_filename == OriginalFilename(file_path)
                   existing_doc == ExistingCompleted(w, original_filename)
                   document == [id |-> NewId(w, 0), filename |-> original_filename,
                                file_path |-> file_path, status |-> "processing",
                                error_message |-> "",
                                processing_completed |-> FALSE, by |-> w]
                   job == NewJob(w, NewId(w, 0))
                   invoice_number == find_invoice_number(ocr_data)
                   created == [locals EXCEPT !.document = NewId(w, 0), !.job = NewId(w, 1),
                                             !.invoice_number = invoice_number,
                                             !.trace = {"find_invoice_number"}]
               IN IF existing_doc # {}
                  THEN /\ results' = [results EXCEPT ![w].skipped =
                            Append(@, [file |-> file_path, reason |-> "Already processed"])]
                       /\ loc' = [loc EXCEPT ![w] = locals]
                       /\ EndAttempt(w, "Skipped")
                       /\ UNCHANGED <<store, nextId>>
                  ELSE /\ documents' = documents \cup {document}
                       /\ jobs' = jobs \cup {job}
                       /\ nextId' = Drawn(w, 2)
                       /\ IF NumberMissing(invoice_number)
                          THEN Raise(w, created, "No invoice number found")
                          ELSE /\ loc' = [loc EXCEPT ![w] = created]
                               /\ pc' = [pc EXCEPT ![w] = "supplier"]
                       /\ UNCHANGED <<companies, currencies, invoices, metadata,
                                      results, idx, outcomes>>
    /\ UNCHANGED <<batch, needs_rollback, runs, ncalls, submitted, lastSuccess, call, applied>>
    /\ UNCHANGED service

\* -------------------------------------------------------- process_invoice
\* mutant: the Company is created without looking for a stored one
get_or_create_company_AlwaysCreates(w, vat_number, name, is_supplier) ==
    IF vat_number = None
    THEN [raised |-> TRUE, id |-> 0, new |-> {},
          message |-> "NOT NULL constraint failed: companies.vat_number"]
    ELSE [raised |-> FALSE, id |-> NewId(w, 0),
          new |-> {[id |-> NewId(w, 0), vat_number |-> vat_number, name |-> name,
                    is_supplier |-> is_supplier, is_customer |-> ~is_supplier,
                    by |-> w]},
          message |-> ""]

\* Company.objects.get_or_create(vat_number=..., defaults=...): get() by the
\* VAT number among the rows the transaction sees; more than one row raises
\* MultipleObjectsReturned; none leads to create(), which runs in its own
\* savepoint, so its IntegrityError (vat_number is NOT NULL) leaves the outer
\* transaction usable.
get_or_create_company(w, vat_number, name, is_supplier) ==
    LET found == {c \in Visible(companies, w) : c.vat_number = vat_number}
    IN IF vat_number = None
       THEN [raised |-> TRUE, id |-> 0, new |-> {},
             message |-> "NOT NULL constraint failed: companies.vat_number"]
       ELSE IF Cardinality(found) > 1
       THEN [raised |-> TRUE, id |-> 0, new |-> {},
             message |-> "get() returned more than one Company"]
       ELSE IF Cardinality(found) = 1
       THEN [raised |-> FALSE, id |-> (CHOOSE c \in found : TRUE).id, new |-> {},
             message |-> ""]
       ELSE [raised |-> FALSE, id |-> NewId(w, 0),
             new |-> {[id |-> NewId(w, 0), vat_number |-> vat_number, name |-> name,
                       is_supplier |-> is_supplier, is_customer |-> ~is_supplier,
                       by |-> w]},
             message |-> ""]

\* process_invoice up to the supplier: the invoice number is looked up again,
\* then supplier_info = find_company_info('supplier'); supplier = get_or_create
resolve_supplier(w) ==
    /\ pc[w] = "supplier"
    /\ LET ocr_data == FileSystem[loc[w].file_path]
           supplier_info == find_company_info(ocr_data, "supplier")
           r == get_or_create_company(w,
                    IF supplier_info.has_vat THEN supplier_info.vat_number ELSE "UNKNOWN",
                    IF supplier_info.name # None THEN supplier_info.name
                                                 ELSE "Unknown Supplier",
                    TRUE)
           locals == [loc[w] EXCEPT !.trace = @ \cup {"find_company_info"}]
       IN IF find_invoice_number(ocr_data) = None
          THEN Raise(w, loc[w], "Could not find invoice number")
               /\ UNCHANGED <<companies, nextId>>
          ELSE IF r.raised
          THEN Raise(w, locals, r.message) /\ UNCHANGED <<companies, nextId>>
          ELSE /\ companies' = companies \cup r.new
               /\ nextId' = Drawn(w, Cardinality(r.new))
               /\ loc' = [loc EXCEPT ![w] = [locals EXCEPT !.supplier = r.id]]
               /\ pc' = [pc EXCEPT ![w] = "customer"]
    /\ UNCHANGED <<documents, jobs, currencies, invoices, metadata, results, batch,
                   idx, needs_rollback, outcomes, runs, ncalls, submitted, lastSuccess, call, applied>>
    /\ UNCHANGED service

\* customer_info = find_company_info('customer'); customer = get_or_create
resolve_customer(w) ==
    /\ pc[w] = "customer"
    /\ LET ocr_data == FileSystem[loc[w].file_path]
           customer_info == find_company_info(ocr_data, "customer")
           r == get_or_create_company(w,
                    IF customer_info.has_vat THEN customer_info.vat_number ELSE "UNKNOWN",
                    IF customer_info.name # None THEN customer_info.name
                                                 ELSE "Unknown Customer",
                    FALSE)
       IN IF r.raised
          THEN Raise(w, loc[w], r.message) /\ UNCHANGED <<companies, nextId>>
          ELSE /\ companies' = companies \cup r.new
               /\ nextId' = Drawn(w, Cardinality(r.new))
               /\ loc' = [loc EXCEPT ![w].customer = r.id]
               /\ pc' = [pc EXCEPT ![w] = "check"]
    /\ UNCHANGED <<documents, jobs, currencies, invoices, metadata, results, batch,
                   idx, needs_rollback, outcomes, runs, ncalls, submitted, lastSuccess, call, applied>>
    /\ UNCHANGED service

\* existing_invoice = Invoice.objects.filter(supplier, invoice_number).first()
check_existing(w) ==
    /\ pc[w] = "check"
    /\ LET found == {i \in Visible(invoices, w) :
                        SameKey(i, loc[w].supplier, loc[w].invoice_number)}
       IN IF found # {}
          THEN /\ loc' = [loc EXCEPT ![w].existing_invoice = (CHOOSE i \in found : TRUE).id]
               /\ pc' = [pc EXCEPT ![w] = "relink"]
          ELSE /\ loc' = loc
               /\ pc' = [pc EXCEPT ![w] = "currency"]
    /\ UNCHANGED <<store, nextId, results, batch, idx, needs_rollback, outcomes,
                   runs, ncalls, submitted, lastSuccess, call, applied>>
    /\ UNCHANGED service

\* the UPDATE of existing_invoice.save() holds the row until the transaction
\* ends; another transaction updating the same row waits for it
RowLocked(w, invoice_id) ==
    \E v \in Workers \ {w} : /\ pc[v] \in InTransaction
                             /\ loc[v].relinked
                             /\ loc[v].existing_invoice = invoice_id

\* existing_invoice.document = document; existing_invoice.save(); return it
relink(w) ==
    /\ pc[w] = "relink"
    /\ ~RowLocked(w, loc[w].existing_invoice)
    /\ loc' = [loc EXCEPT ![w].relinked = TRUE, ![w].invoice = loc[w].existing_invoice]
    /\ pc' = [pc EXCEPT ![w] = "complete"]
    /\ UNCHANGED <<store, nextId, results, batch, idx, needs_rollback, outcomes,
                   runs, ncalls, submitted, lastSuccess, call, applied>>
    /\ UNCHANGED service

\* amounts = find_amounts(); currency = Currency.objects.get_or_create('EUR').
\* code is the primary key: while another transaction holds an uncommitted
\* EUR row the INSERT waits, and get_or_create then returns the committed row.
get_currency(w) ==
    /\ pc[w] = "currency"
    /\ LET mine == {c \in Visible(currencies, w) : c.code = "EUR"}
           theirs == {c \in currencies : c.code = "EUR" /\ c.by \notin {0, w}}
           locals == [loc[w] EXCEPT !.trace = @ \cup {"find_amounts"}]
       IN IF find_amounts(FileSystem[loc[w].file_path]).raised
          THEN /\ Raise(w, locals, "'<' not supported between instances of 'decimal.Decimal' and 'NoneType'")
               /\ UNCHANGED currencies
          ELSE /\ mine = {} => theirs = {}
               /\ currencies' = IF mine = {} THEN currencies \cup {[code |-> "EUR", by |-> w]}
                                ELSE currencies
               /\ loc' = [loc EXCEPT ![w] = locals]
               /\ pc' = [pc EXCEPT ![w] = "create"]
    /\ UNCHANGED <<documents, jobs, companies, invoices, metadata, nextId, results,
                   batch, idx, needs_rollback, outcomes, runs, ncalls, submitted,
                   lastSuccess, call, applied>>
    /\ UNCHANGED service

\* the value does not fit DecimalField(max_digits, decimal_places): preparing
\* it for the database raises inside Model.save()
DecimalOverflow(d) == Len(d.int) + decimal_places > max_digits

\* amounts.get(key, Decimal('0'))
AmountOrZero(d) == IF d.is_none THEN Dec(<<"0">>, <<>>) ELSE d

\* the ExtractedMetadata rows written after the Invoice: one per field whose
\* value is truthy (str(None) is the truthy string 'None')
MetadataRows(w, document, invoice_number, supplier_name, customer_name, total) ==
    {[document |-> document, field_name |-> "invoice_number",
      field_value |-> invoice_number, by |-> w],
     [document |-> document, field_name |-> "total_amount",
      field_value |-> IF total.is_none THEN "None" ELSE total.int, by |-> w]}
    \cup (IF supplier_name # None
          THEN {[document |-> document, field_name |-> "supplier_name",
                 field_value |-> supplier_name, by |-> w]} ELSE {})
    \cup (IF customer_name # None
          THEN {[document |-> document, field_name |-> "customer_name",
                 field_value |-> customer_name, by |-> w]} ELSE {})

\* datetime.now().date(): a date no text writes
Today == Date(0, 0, 0)

\* invoice = Invoice.objects.create(...) and the metadata loop.  The date is
\* computed while the arguments are evaluated, before create() runs.  An
\* exception raised inside create() (that is, inside Model.save()) marks the
\* open transaction as needing rollback.
create_invoice(w) ==
    /\ pc[w] = "create"
    /\ LET ocr_data == FileSystem[loc[w].file_path]
           amounts == find_amounts(ocr_data)
           date == find_date(ocr_data)
           total == IF amounts.has_total THEN amounts.total ELSE Dec(<<"0">>, <<>>)
           locals == [loc[w] EXCEPT !.trace = @ \cup {"find_date"}]
           invoice == [id |-> NewId(w, 0), document |-> loc[w].document,
                       invoice_number |-> loc[w].invoice_number,
                       invoice_date |-> IF date.raised \/ date.value = NoDate THEN Today
                                        ELSE date.value,
                       supplier |-> loc[w].supplier, customer |-> loc[w].customer,
                       currency |-> "EUR",
                       subtotal |-> AmountOrZero(amounts.subtotal),
                       tax_amount |-> AmountOrZero(amounts.tax),
                       total_amount |-> total, by |-> w]
       IN IF date.raised
          THEN /\ Raise(w, locals, date.value)
               /\ UNCHANGED <<invoices, metadata, nextId, needs_rollback>>
          ELSE IF total.is_none
          THEN /\ Raise(w, locals, "NOT NULL constraint failed: invoices.total_amount")
               /\ needs_rollback' = [needs_rollback EXCEPT ![w] = TRUE]
               /\ UNCHANGED <<invoices, metadata, nextId>>
          ELSE IF DecimalOverflow(total)
          THEN /\ Raise(w, locals, "decimal.InvalidOperation")
               /\ needs_rollback' = [needs_rollback EXCEPT ![w] = TRUE]
               /\ UNCHANGED <<invoices, metadata, nextId>>
          ELSE /\ ~UniqueWait(w, loc[w].supplier, loc[w].invoice_number)
               /\ IF UniqueViolation(w, loc[w].supplier, loc[w].invoice_number)
                  THEN /\ Raise(w, locals, "UNIQUE constraint failed: invoices.supplier_id, invoices.invoice_number")
                       /\ needs_rollback' = [needs_rollback EXCEPT ![w] = TRUE]
                       /\ UNCHANGED <<invoices, metadata, nextId>>
                  ELSE /\ invoices' = invoices \cup {invoice}
                       /\ metadata' = metadata \cup
                             MetadataRows(w, loc[w].document, loc[w].invoice_number,
                                          find_company_info(ocr_data, "supplier").name,
                                          find_company_info(ocr_data, "customer").name,
                                          amounts.total)
                       /\ nextId' = Drawn(w, 1)
                       /\ loc' = [loc EXCEPT ![w] = [locals EXCEPT !.invoice = NewId(w, 0)]]
                       /\ pc' = [pc EXCEPT ![w] = "complete"]
                       /\ UNCHANGED needs_rollback
    /\ UNCHANGED <<documents, jobs, companies, currencies, results, batch, idx,
                   outcomes, runs, ncalls, submitted, lastSuccess, call, applied>>
    /\ UNCHANGED service

\* ------------------------------------- process_single_file, after the call
Row(rows, id) == CHOOSE r \in rows : r.id = id

\* mutant: the re-link branch returns the Invoice without updating it
Relinked_NoUpdate(rows, w) == rows

\* mutant: the save writes the document to every Invoice
Relinked_EveryInvoice(rows, w) ==
    IF loc[w].relinked
    THEN {[i EXCEPT !.document = loc[w].document] : i \in rows}
    ELSE rows

\* mutant: the re-link also stores the total found in the current file
Relinked_Refreshed(rows, w) ==
    IF loc[w].relinked
    THEN {IF i.id = loc[w].existing_invoice
          THEN [i EXCEPT !.document = loc[w].document,
                         !.total_amount =
                            AmountOrZero(find_amounts(FileSystem[loc[w].file_path]).total)]
          ELSE i : i \in rows}
    ELSE rows

\* the existing Invoice as existing_invoice.save() writes it
Relinked(rows, w) ==
    IF loc[w].relinked
    THEN {IF i.id = loc[w].existing_invoice
          THEN [i EXCEPT !.document = loc[w].document] ELSE i : i \in rows}
    ELSE rows

\* the atomic block is left without an exception
Commit(w, docs, jbs) ==
    /\ documents' = CommitRows(docs, w)
    /\ jobs' = CommitRows(jbs, w)
    /\ companies' = CommitRows(companies, w)
    /\ currencies' = CommitRows(currencies, w)
    /\ invoices' = CommitRows(Relinked(invoices, w), w)
    /\ metadata' = CommitRows(metadata, w)

\* the atomic block is left by an exception
Rollback(w) ==
    /\ documents' = RollbackRows(documents, w)
    /\ jobs' = RollbackRows(jobs, w)
    /\ companies' = RollbackRows(companies, w)
    /\ currencies' = RollbackRows(currencies, w)
    /\ invoices' = RollbackRows(invoices, w)
    /\ metadata' = RollbackRows(metadata, w)

\* mutant: the Document is saved without the new field values
SaveDocument_StatusKept(w, status, error_message) == documents

\* mutant: the Document is saved with its status but without the message
SaveDocument_NoMessage(w, status, error_message) ==
    {IF d.id = loc[w].document
     THEN [d EXCEPT !.status = status, !.processing_completed = TRUE]
     ELSE d : d \in documents}

\* mutant: the save updates every Document with the filename
SaveDocument_ByFilename(w, status, error_message) ==
    {IF \E e \in documents : e.id = loc[w].document /\ e.filename = d.filename
     THEN [d EXCEPT !.status = status, !.error_message = error_message,
                    !.processing_completed = TRUE]
     ELSE d : d \in documents}

\* mutant: the save updates every Document made from the file
SaveDocument_ByPath(w, status, error_message) ==
    {IF \E e \in documents : e.id = loc[w].document /\ e.file_path = d.file_path
     THEN [d EXCEPT !.status = status, !.error_message = error_message,
                    !.processing_completed = TRUE]
     ELSE d : d \in documents}

\* mutant: the job is saved without the page count
SaveJob_NoPages(w, success, error_details, pages) ==
    {IF j.id = loc[w].job
     THEN [j EXCEPT !.success = success, !.error_details = error_details,
                    !.completed_at = TRUE]
     ELSE j : j \in jobs}

\* mutant: the save updates every ProcessingJob
SaveJob_EveryJob(w, success, error_details, pages) ==
    {[j EXCEPT !.success = success, !.error_details = error_details,
               !.completed_at = TRUE, !.pages_processed = pages] : j \in jobs}

\* document.save(), job.save() with the given field values
SaveDocument(w, status, error_message) ==
    {IF d.id = loc[w].document
     THEN [d EXCEPT !.status = status, !.error_message = error_message,
                    !.processing_completed = TRUE]
     ELSE d : d \in documents}
SaveJob(w, success, error_details, pages) ==
    {IF j.id = loc[w].job
     THEN [j EXCEPT !.success = success, !.error_details = error_details,
                    !.completed_at = TRUE, !.pages_processed = pages]
     ELSE j : j \in jobs}

\* document completed, job success, the 'successful' entry, return True
complete(w) ==
    /\ pc[w] = "complete"
    /\ LET invoice == Row(Relinked(invoices, w), loc[w].invoice)
           supplier == Row(companies, invoice.supplier)
           customer == Row(companies, invoice.customer)
       IN /\ results' = [results EXCEPT ![w].successful =
                Append(@, [file |-> loc[w].file_path,
                           invoice_number |-> invoice.invoice_number,
                           total |-> invoice.total_amount,
                           supplier |-> supplier.name,
                           customer |-> customer.name])]
          /\ lastSuccess' =
                {t \in lastSuccess : ~(t[1] = supplier.vat_number
                                       /\ t[2] = invoice.invoice_number)}
                \cup {<<supplier.vat_number, invoice.invoice_number, loc[w].document>>}
    /\ Commit(w, SaveDocument(w, "completed", ""),
                 SaveJob(w, TRUE, "", FileSystem[loc[w].file_path].pages))
    /\ EndAttempt(w, "Success")
    /\ UNCHANGED <<nextId, batch, loc, needs_rollback, runs, ncalls, submitted,
                   call, applied>>
    /\ UNCHANGED service

\* except Exception as e: the handler.  Its first query (document.save())
\* raises TransactionManagementError when the transaction needs rollback;
\* the error leaves process_single_file and process_file_list, and the
\* atomic block rolls back.
handle_exception(w) ==
    /\ pc[w] = "except"
    /\ IF needs_rollback[w] /\ (loc[w].document # 0 \/ loc[w].job # 0)
       THEN /\ Rollback(w)
            /\ needs_rollback' = [needs_rollback EXCEPT ![w] = FALSE]
            /\ outcomes' = [outcomes EXCEPT ![w] = Append(@, "Raised")]
            /\ runs' = [runs EXCEPT ![w] = <<@[2], NoRun>>]
            /\ pc' = [pc EXCEPT ![w] = "raised"]
            /\ UNCHANGED <<results, idx>>
       ELSE /\ results' = [results EXCEPT ![w].failed =
                  Append(@, [file |-> loc[w].file_path, error |-> loc[w].exc])]
            /\ IF needs_rollback[w]
               THEN Rollback(w)
               ELSE Commit(w, SaveDocument(w, "failed", loc[w].exc),
                              SaveJob(w, FALSE, loc[w].exc, 0))
            /\ needs_rollback' = [needs_rollback EXCEPT ![w] = FALSE]
            /\ EndAttempt(w, "Failed")
            /\ UNCHANGED runs
    /\ UNCHANGED <<nextId, batch, loc, ncalls, submitted, lastSuccess, call, applied>>
    /\ UNCHANGED service

\* ---------------------------------------------------------- specification
Step(w, max_files, max_calls, paths) ==
    \/ process_file_list(w, max_files, max_calls, paths)
    \/ return_results(w)
    \/ new_processor(w)
    \/ load_and_check(w)
    \/ resolve_supplier(w)
    \/ resolve_customer(w)
    \/ check_existing(w)
    \/ relink(w)
    \/ get_currency(w)
    \/ create_invoice(w)
    \/ complete(w)
    \/ handle_exception(w)

\* two workers, each with its own processor, on one database
Next == \E w \in Workers : Step(w, MaxFiles, MaxConcurrent, ConcurrentPaths)
Spec == Init /\ [][Next]_vars

\* the two entry points of InvoiceReprocessor
Reprocess(w, max_files, max_calls) ==
    \/ reprocess_failed(w, max_files, max_calls)
    \/ reprocess_document(w, max_files, max_calls)

\* one worker: the calls follow one another
SeqNext == Step(1, MaxSeqFiles, MaxCalls, BatchPaths)
SeqSpec == Init /\ [][SeqNext]_vars

\* one worker that makes batch calls and reprocesses what is stored
RetryNext ==
    \/ Step(1, MaxSeqFiles, MaxCalls, RetryPaths)
    \/ Reprocess(1, MaxSeqFiles, MaxCalls)
RetrySpec == Init /\ [][RetryNext]_vars

\* one worker that submits failing files and reprocesses them
FailingNext ==
    \/ Step(1, MaxFailingFiles, MaxCalls, FailingPaths)
    \/ Reprocess(1, MaxFailingFiles, MaxCalls)
FailingSpec == Init /\ [][FailingNext]_vars

\* one worker whose files name no known party
UnknownNext == Step(1, MaxSeqFiles, MaxCalls, UnknownPaths)
UnknownSpec == Init /\ [][UnknownNext]_vars

\* one worker whose files share a filename
SkipNext == Step(1, MaxSeqFiles, MaxCalls, SkipPaths)
SkipSpec == Init /\ [][SkipNext]_vars

\* ------------------------------------ the extractor's functions on their own
pipeline == <<documents, jobs, companies, currencies, invoices, metadata, nextId,
              pc, results, batch, idx, loc, needs_rollback, outcomes, runs,
              ncalls, submitted, lastSuccess, call, service>>

\* the rules of find_invoice_number and phrases of the texts they search
NumberRules == {AmazonRule, RechnungsnummerRule, InvoiceRule, FacturaRule}
NumberPhrases == {AmazonId, "Rechnungsnummer: RE-1", "Invoice Number: INV-7",
                  "Factura Nr: F-9", "Amazon"}

\* the texts of at most n lines, each one of the given lines
Texts(n, lines) == UNION {[1..k -> lines] : k \in 0..n}

\* a list of rules and a text for find_pattern
PatternInputs ==
    {[patterns |-> ps, text |-> t] :
        ps \in UNION {[1..n -> NumberRules] : n \in 0..MaxRules},
        t \in Texts(MaxPhrases, NumberPhrases)}

PatternInit ==
    /\ Constructed
    /\ \E input \in PatternInputs :
          applied = [fn |-> "none", arg |-> input, ret |-> None]

\* find_pattern(patterns, text)
apply_find_pattern ==
    /\ applied.fn = "none"
    /\ applied' = [applied EXCEPT
                      !.fn = "find_pattern",
                      !.ret = find_pattern(applied.arg.patterns, applied.arg.text)]
    /\ UNCHANGED pipeline

\* InvoiceExtractor(ocr_data).find_invoice_number() on the text
apply_find_invoice_number ==
    /\ applied.fn = "none"
    /\ applied' = [applied EXCEPT
                      !.fn = "find_invoice_number",
                      !.ret = find_invoice_number([text |-> applied.arg.text])]
    /\ UNCHANGED pipeline

PatternNext == apply_find_pattern \/ apply_find_invoice_number
PatternSpec == PatternInit /\ [][PatternNext]_vars

\* the characters of the texts handed to parse_amount: two digits, the two
\* separators and a letter
AmountChars == {"0", "1", ".", ",", "x"}

\* '1.234,56', '0,00', '1234,56' and '1,234,56'
AmountExamples ==
    {<<"1", ".", "2", "3", "4", ",", "5", "6">>, <<"0", ",", "0", "0">>,
     <<"1", "2", "3", "4", ",", "5", "6">>,
     <<"1", ",", "2", "3", "4", ",", "5", "6">>}

AmountInit ==
    /\ Constructed
    /\ \E text \in Texts(MaxChars, AmountChars) \cup AmountExamples :
          applied = [fn |-> "none", arg |-> text, ret |-> NoDecimal]

\* parse_amount(text)
apply_parse_amount ==
    /\ applied.fn = "none"
    /\ applied' = [applied EXCEPT !.fn = "parse_amount",
                                  !.ret = parse_amount(applied.arg)]
    /\ UNCHANGED pipeline

AmountNext == apply_parse_amount
AmountSpec == AmountInit /\ [][AmountNext]_vars

\* the lines of the texts handed to find_amounts: a total line, tax lines
\* with a zero amount, with an amount below, equal to and above the total,
\* one 'Gesamt' does not directly precede the amount of, two subtotal lines, a
\* tax line whose amount ends in '0,00' and a total label without number
AmountLines ==
    {"Zahlbetrag 107,16", "USt. Gesamt 0,00", "USt. Gesamt 19,00",
     "USt. Gesamt EUR 19,00", "USt. Gesamt 107,16", "USt. Gesamt 119,16",
     "Zwischensumme 99,14", "Zwischensumme 107,16", "USt 10,00", "Total,"}

AmountsInit ==
    /\ Constructed
    /\ \E text \in Texts(MaxLines, AmountLines) :
          applied = [fn |-> "none", arg |-> text,
                     ret |-> [has_total |-> FALSE, total |-> NoDecimal,
                              subtotal |-> NoDecimal, tax |-> NoDecimal,
                              raised |-> FALSE]]

\* InvoiceExtractor(ocr_data).find_amounts() on the text
apply_find_amounts ==
    /\ applied.fn = "none"
    /\ applied' = [applied EXCEPT !.fn = "find_amounts",
                                  !.ret = find_amounts([text |-> applied.arg])]
    /\ UNCHANGED pipeline

AmountsNext == apply_find_amounts
AmountsSpec == AmountsInit /\ [][AmountsNext]_vars

\* the strings handed to parse_date: a day (0, 9, 29, 31), a month and a
\* year (a leap year and the next), written with the German month name or
\* with digits in the four formats, and strings without a date
DayDigits == {<<"0">>, <<"9">>, <<"2", "9">>, <<"3", "1">>}
MonthDigits == {<<"2">>, <<"1", "1">>, <<"1", "3">>}
YearDigits == {<<"2", "0", "2", "0">>, <<"2", "0", "2", "1">>}
GermanDates ==
    {day \o after \o <<month_map[month]>> \o <<" ">> \o year :
        day \in DayDigits, after \in {<<" ">>, <<".", " ">>},
        month \in 1..12, year \in YearDigits}
NumericDates ==
    {day \o <<c>> \o month \o <<c>> \o year :
        day \in DayDigits, c \in {"/", "-", "."}, month \in MonthDigits,
        year \in YearDigits}
    \cup {year \o <<"-">> \o month \o <<"-">> \o day :
            day \in DayDigits, month \in MonthDigits, year \in YearDigits}
OtherDates ==
    {<<>>, <<"n/a">>, <<"November">>, <<"9", " ", "November", " ", "2", "0">>}

DateInit ==
    /\ Constructed
    /\ \E date_str \in GermanDates \cup NumericDates \cup OtherDates :
          applied = [fn |-> "none", arg |-> date_str,
                     ret |-> [raised |-> FALSE, value |-> NoDate]]

\* parse_date(date_str)
apply_parse_date ==
    /\ applied.fn = "none"
    /\ applied' = [applied EXCEPT !.fn = "parse_date", !.ret = parse_date(applied.arg)]
    /\ UNCHANGED pipeline

DateNext == apply_parse_date
DateSpec == DateInit /\ [][DateNext]_vars

\* the lines of the OCR structures that are flattened: objectness_score in
\* tenths; a line of two words, a line the OCR is not confident of and a
\* line without words
OcrLines ==
    {[words |-> <<"Zahlbetrag", "107,16">>, objectness_score |-> 9],
     [words |-> <<"Amazon">>, objectness_score |-> 1],
     [words |-> <<>>, objectness_score |-> 0]}

\* An OCR structure grown by one node at its end: a page, a block in the
\* last page or a line in the last block of the last page.  lines keeps the
\* lines in the order they were added.
Grown(tree) ==
    {[pages |-> Append(tree.pages, <<>>), lines |-> tree.lines]}
    \cup (IF tree.pages = <<>> THEN {}
          ELSE LET p == Len(tree.pages)
               IN {[pages |-> [tree.pages EXCEPT ![p] = Append(@, <<>>)],
                    lines |-> tree.lines]}
                  \cup (IF tree.pages[p] = <<>> THEN {}
                        ELSE LET b == Len(tree.pages[p])
                             IN {[pages |-> [tree.pages EXCEPT ![p][b] = Append(@, line)],
                                  lines |-> Append(tree.lines, line)] :
                                    line \in OcrLines}))

\* the OCR structures of at most n nodes
RECURSIVE OcrTrees(_)
OcrTrees(n) ==
    IF n = 0 THEN {[pages |-> <<>>, lines |-> <<>>]}
    ELSE LET smaller == OcrTrees(n - 1)
         IN smaller \cup UNION {Grown(tree) : tree \in smaller}

\* a payload with pages, or one without the key 'pages'
FlattenInit ==
    /\ Constructed
    /\ \E tree \in OcrTrees(MaxNodes), has_pages \in BOOLEAN :
          /\ ~has_pages => tree.pages = <<>>
          /\ applied = [fn |-> "none",
                        arg |-> [has_pages |-> has_pages, pages |-> tree.pages,
                                 lines |-> tree.lines],
                        ret |-> [text_blocks |-> <<>>, full_text |-> ""]]

\* InvoiceExtractor(ocr_data)
apply_extract_text_blocks ==
    /\ applied.fn = "none"
    /\ applied' = [applied EXCEPT !.fn = "_extract_text_blocks",
                                  !.ret = InvoiceExtractor(applied.arg)]
    /\ UNCHANGED pipeline

FlattenNext == apply_extract_text_blocks
FlattenSpec == FlattenInit /\ [][FlattenNext]_vars

\* the lines of the Amazon scenario, and lines a text may hold besides them
\* that state no other total and no other tax
ScenarioLines ==
    {AmazonId, "Zahlbetrag 107,16", "USt. Gesamt 0,00", "Amazon", "SENSIDEV"}
ExtraLines ==
    {"Invoice Number: INV-7", "Zwischensumme 99,14", "Rechnungsdatum 9 November 2020"}

\* the texts with one more line, any of the scenario included, at any place
RECURSIVE WithExtra(_, _)
WithExtra(texts, n) ==
    IF n = 0
    THEN texts
    ELSE WithExtra(texts \cup
                   {SubSeq(text, 1, i) \o <<line>> \o SubSeq(text, i + 1, Len(text)) :
                      text \in texts, i \in 0..Cardinality(ScenarioLines),
                      line \in ScenarioLines \cup ExtraLines},
                   n - 1)

\* the texts that hold every line of the scenario, in any order
ScenarioTexts ==
    WithExtra({text \in [1..Cardinality(ScenarioLines) -> ScenarioLines] :
                 ScenarioLines \subseteq Phrases(text)},
              MaxExtra)

ScenarioInit ==
    /\ Constructed
    /\ \E text \in ScenarioTexts :
          applied = [fn |-> "none", arg |-> text, ret |-> <<>>]

\* the extraction methods as test_ocr_extraction calls them
apply_extraction ==
    /\ applied.fn = "none"
    /\ LET ocr == [text |-> applied.arg]
       IN applied' = [applied EXCEPT
                         !.fn = "extraction",
                         !.ret = [invoice_number |-> find_invoice_number(ocr),
                                  amounts |-> find_amounts(ocr),
                                  supplier |-> find_company_info(ocr, "supplier"),
                                  customer |-> find_company_info(ocr, "customer")]]
    /\ UNCHANGED pipeline

ScenarioNext == apply_extraction
ScenarioSpec == ScenarioInit /\ [][ScenarioNext]_vars

\* ------------------------------------------------------------ storage paths
\* A path is the sequence of its parts: "/" and "." one element each, every
\* run of other characters one element.
\* str.lower() of a part
lower(part) ==
    CASE part = "PDF" -> "pdf"
      [] part = "Pdf" -> "pdf"
      [] part = "A" -> "a"
      [] OTHER -> part

\* the parts of the path in lower case
Lowered(path) == [k \in 1..Len(path) |-> lower(path[k])]

\* str.startswith and str.endswith
startswith(path, prefix) ==
    Len(path) >= Len(prefix) /\ SubSeq(path, 1, Len(prefix)) = prefix
endswith(path, suffix) ==
    /\ Len(path) >= Len(suffix)
    /\ SubSeq(path, Len(path) - Len(suffix) + 1, Len(path)) = suffix

\* the place of the last c of the path, 0 without one (str.rfind plus one)
RECURSIVE rfind(_, _)
rfind(path, c) ==
    IF path = <<>> THEN 0
    ELSE IF path[Len(path)] = c THEN Len(path)
    ELSE rfind(SubSeq(path, 1, Len(path) - 1), c)

\* os.path.basename: what follows the last "/"
basename(path) == SubSeq(path, rfind(path, "/") + 1, Len(path))

\* os.path.splitext(name)[0]: the name up to its last ".", unless only dots
\* come before that one
splitext(name) ==
    LET dot == rfind(name, ".")
    IN IF dot = 0 \/ \A k \in 1..dot : name[k] = "."
       THEN name
       ELSE SubSeq(name, 1, dot - 1)

\* f"json-output/{base_name}.json" of activities.py
json_file_path(filename) ==
    <<"json-output", "/">> \o splitext(basename(filename)) \o <<".", "json">>

\* ------------------------------------------------------ the storage bucket
\* an object of the bucket: its bytes, and for an OCR result the metadata
\* process_file_activity adds to the export
Bytes(content) ==
    [bytes |-> content, original_filename |-> <<>>, processing_timestamp |-> 0]
JsonData(filename, now) ==
    [bytes |-> "json", original_filename |-> filename, processing_timestamp |-> now]

\* the bucket of the deployment with an invoice and an empty file in it
Bucket == "linkledger"
Uploaded ==
    (<<Bucket, <<"a", ".", "pdf">>>> :> Bytes("pdf")) @@
    (<<Bucket, <<"dir", "/", "a", ".", "pdf">>>> :> Bytes("pdf")) @@
    (<<Bucket, <<"empty", ".", "pdf">>>> :> Bytes(""))

\* the bucket may hold the OCR result of an earlier deployment
Processed ==
    (<<Bucket, <<"json-output", "/", "a", ".", "json">>>> :>
        JsonData(<<"a", ".", "pdf">>, 0)) @@ Uploaded

\* storage.from_(bucket).upload(path, file, upsert) and .update(path, file)
\* when they succeed, and the event the storage sends of the object
Stored(bucket, path, file) == (<<bucket, path>> :> file) @@ objects
StorageEvent(bucket, path, file) ==
    [bucket_id |-> bucket, name |-> path, metadata |-> file]

\* the variables of the batch processors and the extractor
batches == <<documents, jobs, companies, currencies, invoices, metadata, nextId,
             pc, results, batch, idx, loc, needs_rollback, outcomes, runs,
             ncalls, submitted, lastSuccess, call, applied>>

\* -------------------------------------------------- process_file_activity
\* mutant: a plain exception is raised
FileProcessingError_Plain(message) == <<"Exception", message>>

\* the activity's two exits
FileProcessingError(message) == <<"FileProcessingError", message>>
Returned(message) == <<"str", message>>

\* a collaborator fails, or the worker is lost
Fault == faults < MaxFaults /\ faults' = faults + 1

\* the execution of run k goes on to the next step
Proceed(k, step, next) ==
    [activity[k] EXCEPT !.pc = next, !.steps = Append(@, <<step, "ok">>)]

\* the execution of run k raises FileProcessingError at a step
Fail(k, step, message) ==
    [activity[k] EXCEPT !.pc = "raised", !.steps = Append(@, <<step, "failed">>),
                        !.outcome = FileProcessingError(message)]

\* all([filename, bucket_name, supabase_url, supabase_key])
validate_arguments(k) ==
    /\ activity[k].pc = "validate"
    /\ LET args == activity[k].args
       IN activity' = [activity EXCEPT ![k] =
              IF \/ args.filename = <<>> \/ args.bucket_name = ""
                 \/ args.supabase_url = "" \/ args.supabase_key = ""
              THEN Fail(k, "validate", "Missing required arguments for file processing")
              ELSE Proceed(k, "validate", "create_client")]
    /\ UNCHANGED <<objects, events, workflows, clock, settings, faults, notified, batches>>

\* create_client(supabase_url, supabase_key) returns a client or raises
create_client(k) ==
    /\ activity[k].pc = "create_client"
    /\ \/ /\ activity' = [activity EXCEPT ![k] =
                    Proceed(k, "create_client", "download")]
          /\ UNCHANGED faults
       \/ /\ Fault
          /\ activity' = [activity EXCEPT ![k] =
                    Fail(k, "create_client", "Supabase initialization failed")]
    /\ UNCHANGED <<objects, events, workflows, clock, settings, notified, batches>>

\* storage.from_(bucket_name).download(filename): the bytes of the object,
\* or an exception (always one when there is no such object)
download(k) ==
    /\ activity[k].pc = "download"
    /\ LET args == activity[k].args
           key == <<args.bucket_name, args.filename>>
       IN \/ /\ key \in DOMAIN objects
             /\ activity' = [activity EXCEPT ![k] =
                    [Proceed(k, "download", "check_content")
                       EXCEPT !.file_content = objects[key].bytes]]
             /\ UNCHANGED faults
          \/ /\ IF key \in DOMAIN objects THEN Fault ELSE UNCHANGED faults
             /\ activity' = [activity EXCEPT ![k] =
                    Fail(k, "download", "Failed to download file")]
    /\ UNCHANGED <<objects, events, workflows, clock, settings, notified, batches>>

\* if not file_content
check_content(k) ==
    /\ activity[k].pc = "check_content"
    /\ activity' = [activity EXCEPT ![k] =
           IF activity[k].file_content = ""
           THEN Fail(k, "check_content", "Downloaded file is empty")
           ELSE Proceed(k, "check_content", "ocr_predictor")]
    /\ UNCHANGED <<objects, events, workflows, clock, settings, faults, notified, batches>>

\* ocr_predictor(pretrained=True) returns the model or raises
ocr_predictor(k) ==
    /\ activity[k].pc = "ocr_predictor"
    /\ \/ /\ activity' = [activity EXCEPT ![k] = Proceed(k, "ocr_predictor", "ocr")]
          /\ UNCHANGED faults
       \/ /\ Fault
          /\ activity' = [activity EXCEPT ![k] =
                    Fail(k, "ocr_predictor", "OCR model initialization failed")]
    /\ UNCHANGED <<objects, events, workflows, clock, settings, notified, batches>>

\* DocumentFile.from_pdf, model(doc), result.export(), the metadata and
\* json.dumps: the output of this execution, or an exception
ocr(k) ==
    /\ activity[k].pc = "ocr"
    /\ \/ /\ clock < MaxExports
          /\ clock' = clock + 1
          /\ activity' = [activity EXCEPT ![k] =
                 [Proceed(k, "ocr", "upload") EXCEPT
                    !.json_data = JsonData(activity[k].args.filename, clock + 1)]]
          /\ UNCHANGED faults
       \/ /\ Fault
          /\ activity' = [activity EXCEPT ![k] =
                 Fail(k, "ocr", "OCR PROCESSING FAILED")]
          /\ UNCHANGED clock
    /\ UNCHANGED <<objects, events, workflows, settings, notified, batches>>

\* what str(e) of a failed upload or update may read
StorageErrors ==
    {"The resource already exists", "Duplicate: Already Exists",
     "Bucket not found", "Request timed out"}

\* str(e).lower()
str_lower(e) ==
    CASE e = "The resource already exists" -> "the resource already exists"
      [] e = "Duplicate: Already Exists" -> "duplicate: already exists"
      [] e = "Bucket not found" -> "bucket not found"
      [] e = "Request timed out" -> "request timed out"

\* mutant: every failed upload is retried as an update
already_exists_Always(e) == e \in StorageErrors

\* "already exists" in str(e).lower()
already_exists(e) ==
    str_lower(e) \in {"the resource already exists", "duplicate: already exists"}

\* datetime.isoformat() of the clock's values
isoformat(now) ==
    <<"t1", "t2", "t3", "t4", "t5", "t6", "t7", "t8", "t9", "t10", "t11", "t12">>[now]

\* mutant: the result is stored under the name of the run's export
result_path_PerRun(k) ==
    <<"json-output", "/">> \o splitext(basename(activity[k].args.filename))
        \o <<"-", isoformat(activity[k].json_data.processing_timestamp), ".", "json">>

\* json_file_path of the execution of run k
result_path(k) == json_file_path(activity[k].args.filename)

\* storage.from_(bucket_name).upload(path, file, upsert): stores the output,
\* or raises; the storage says "already exists" only of a path that holds
\* an object
upload(k) ==
    /\ activity[k].pc = "upload"
    /\ LET bucket == activity[k].args.bucket_name
           path == result_path(k)
       IN \/ /\ objects' = Stored(bucket, path, activity[k].json_data)
             /\ events' = events \cup {StorageEvent(bucket, path, activity[k].json_data)}
             /\ activity' = [activity EXCEPT ![k] = Proceed(k, "upload", "return")]
             /\ UNCHANGED faults
          \/ /\ Fault
             /\ \E e \in StorageErrors :
                  /\ already_exists(e) => <<bucket, path>> \in DOMAIN objects
                  /\ activity' = [activity EXCEPT ![k] =
                         IF already_exists(e)
                         THEN [activity[k] EXCEPT
                                 !.pc = "update", !.upload_error = e,
                                 !.steps = Append(@, <<"upload", "failed">>)]
                         ELSE [Fail(k, "upload", "Failed to upload JSON result")
                                 EXCEPT !.upload_error = e]]
             /\ UNCHANGED <<objects, events>>
    /\ UNCHANGED <<workflows, clock, settings, notified, batches>>

\* storage.from_(bucket_name).update(path, file): replaces the object at the
\* path, or raises (always when the path holds none)
update(k) ==
    /\ activity[k].pc = "update"
    /\ LET bucket == activity[k].args.bucket_name
           path == result_path(k)
       IN \/ /\ <<bucket, path>> \in DOMAIN objects
             /\ objects' = Stored(bucket, path, activity[k].json_data)
             /\ events' = events \cup {StorageEvent(bucket, path, activity[k].json_data)}
             /\ activity' = [activity EXCEPT ![k] = Proceed(k, "update", "return")]
             /\ UNCHANGED faults
          \/ /\ Fault
             /\ activity' = [activity EXCEPT ![k] =
                    Fail(k, "update", "Failed to update existing file")]
             /\ UNCHANGED <<objects, events>>
    /\ UNCHANGED <<workflows, clock, settings, notified, batches>>

\* return f"Successfully processed {filename}. ..."
return_message(k) ==
    /\ activity[k].pc = "return"
    /\ activity' = [activity EXCEPT ![k] =
           [Proceed(k, "return", "returned") EXCEPT
              !.outcome = Returned("Successfully processed")]]
    /\ UNCHANGED <<objects, events, workflows, clock, settings, faults, notified, batches>>

\* ------------------------------------------------- FileProcessingWorkflow
\* RetryPolicy(maximum_attempts=3)
maximum_attempts == 3

\* a run as start_workflow creates it
Run(filename, bucket_name, supabase_url, supabase_key, request) ==
    [args |-> [filename |-> filename, bucket_name |-> bucket_name,
               supabase_url |-> supabase_url, supabase_key |-> supabase_key],
     status |-> "running", attempts |-> <<>>, outcome |-> <<>>,
     result |-> <<>>, request |-> request]

\* the attempt ended with the activity's return value
Succeeded(attempt) == attempt = "str"

\* mutant: a fourth attempt is made
retry_OneMore(attempts) == Len(attempts) <= maximum_attempts

\* the retry policy allows another attempt after these
retry(attempts) == Len(attempts) < maximum_attempts

\* workflow.execute_activity schedules an attempt: the first one, or the
\* next after a failed one while the retry policy allows it
execute_activity(k) ==
    /\ workflows[k].status = "running"
    /\ activity[k].pc = "none"
    /\ LET attempts == workflows[k].attempts
       IN IF attempts = <<>> THEN TRUE
          ELSE ~Succeeded(attempts[Len(attempts)]) /\ retry(attempts)
    /\ activity' = [activity EXCEPT ![k] =
           [NoActivity EXCEPT !.pc = "validate", !.args = workflows[k].args]]
    /\ UNCHANGED <<objects, events, workflows, clock, settings, faults, notified, batches>>

\* the attempt ends with what the activity returned or raised
attempt_ends(k) ==
    /\ activity[k].pc \in {"returned", "raised"}
    /\ workflows' = [workflows EXCEPT ![k].attempts = Append(@, activity[k].outcome[1]),
                                      ![k].outcome = activity[k].outcome]
    /\ activity' = [activity EXCEPT ![k] = NoActivity]
    /\ UNCHANGED <<objects, events, clock, settings, faults, notified, batches>>

\* start_to_close_timeout: the worker is lost while it runs the activity,
\* whatever step it is at, and the attempt times out
attempt_times_out(k) ==
    /\ activity[k].pc \notin {"none", "returned", "raised"}
    /\ Fault
    /\ workflows' = [workflows EXCEPT
                        ![k].attempts = Append(@, "TimeoutError"),
                        ![k].outcome = <<"TimeoutError", "activity StartToClose timeout">>]
    /\ activity' = [activity EXCEPT ![k] = NoActivity]
    /\ UNCHANGED <<objects, events, clock, settings, notified, batches>>

\* return result
run_returns(k) ==
    /\ workflows[k].status = "running"
    /\ activity[k].pc = "none"
    /\ LET attempts == workflows[k].attempts
       IN /\ attempts # <<>>
          /\ Succeeded(attempts[Len(attempts)])
          /\ workflows' = [workflows EXCEPT ![k].status = "completed",
                                            ![k].result = workflows[k].outcome]
    /\ UNCHANGED <<objects, events, activity, clock, settings, faults, notified, batches>>

\* except Exception as e: ... raise, once no attempt is left
run_raises(k) ==
    /\ workflows[k].status = "running"
    /\ activity[k].pc = "none"
    /\ LET attempts == workflows[k].attempts
       IN /\ attempts # <<>>
          /\ ~Succeeded(attempts[Len(attempts)])
          /\ ~retry(attempts)
          /\ workflows' = [workflows EXCEPT ![k].status = "failed",
                                            ![k].result = workflows[k].outcome]
    /\ UNCHANGED <<objects, events, activity, clock, settings, faults, notified, batches>>

\* the steps of an execution of the activity
ActivityStep(k) ==
    \/ validate_arguments(k)
    \/ create_client(k)
    \/ download(k)
    \/ check_content(k)
    \/ ocr_predictor(k)
    \/ ocr(k)
    \/ upload(k)
    \/ update(k)
    \/ return_message(k)

\* the steps of the workflow of run k
WorkflowStep(k) ==
    \/ execute_activity(k)
    \/ attempt_ends(k)
    \/ attempt_times_out(k)
    \/ run_returns(k)
    \/ run_raises(k)

\* the arguments the activity is executed with: files of the bucket, a
\* file it does not hold, a missing file name and a missing URL
ActivityArgs ==
    {[filename |-> path, bucket_name |-> Bucket,
      supabase_url |-> "https://project.supabase.co", supabase_key |-> "service-key"] :
       path \in {<<"a", ".", "pdf">>, <<"dir", "/", "a", ".", "pdf">>,
                  <<"empty", ".", "pdf">>, <<"gone", ".", "pdf">>, <<>>}}
    \cup {[filename |-> <<"a", ".", "pdf">>, bucket_name |-> Bucket,
            supabase_url |-> "", supabase_key |-> "service-key"]}

\* process_file_activity(args) is executed, for the first time or again,
\* whatever became of the execution before
process_file_activity ==
    /\ \E args \in ActivityArgs :
          activity' = [activity EXCEPT ![1] =
                          [NoActivity EXCEPT !.pc = "validate", !.args = args]]
    /\ UNCHANGED <<objects, events, workflows, clock, settings, faults, notified, batches>>

\* the bucket with its files, the activity not executed yet
Deployed == [SUPABASE_URL |-> "https://project.supabase.co",
             SUPABASE_SERVICE_KEY |-> "service-key"]
ActivityInit ==
    /\ Processors /\ applied = NotApplied
    /\ Idle
    /\ objects \in {Uploaded, Processed}
    /\ settings = Deployed

ActivityNext ==
    \/ process_file_activity
    \/ ActivityStep(1)
ActivitySpec == ActivityInit /\ [][ActivityNext]_vars

\* -------------------------------------------------------- supabase_webhook
\* JSON null, and dict.get(key, default)
Null == [null |-> TRUE]
\* a request body json.loads raises JSONDecodeError for
NotJson == [invalid |-> TRUE]
Get(dict, key, default) == IF key \in DOMAIN dict THEN dict[key] ELSE default

\* HttpResponse(content, status)
HttpResponse(content, status) == [status_code |-> status, content |-> content]

\* record = data.get('record') or data.get('Record', {}), then data['new']
\* in its place when that is empty and the payload has the key
RecordOf(data) ==
    LET first == Get(data, "record", Null)
        record == IF first # Null /\ first # <<>> THEN first
                  ELSE Get(data, "Record", <<>>)
    IN IF (record = Null \/ record = <<>>) /\ "new" \in DOMAIN data
       THEN Get(data, "new", <<>>)
       ELSE record

\* record.get('bucket_id') or record.get('bucket_name'), and
\* record.get('name') or record.get('path') (None reads as the empty string)
BucketOf(record) ==
    IF Get(record, "bucket_id", "") # "" THEN record["bucket_id"]
    ELSE Get(record, "bucket_name", "")
FilePathOf(record) ==
    IF Get(record, "name", <<>>) # <<>> THEN record["name"]
    ELSE Get(record, "path", <<>>)

\* file_path.lower().endswith('.pdf')
is_pdf(file_path) == endswith(Lowered(file_path), <<".", "pdf">>)

\* mutant: files of the output folder are not skipped
already_processed_Never(file_path) == FALSE

\* file_path.startswith('json-output/')
already_processed(file_path) == startswith(file_path, <<"json-output", "/">>)

\* the view up to the start of the workflow: the response it returns there,
\* or the file and bucket it starts the workflow with
View(request) ==
    LET data == request.body
        record == RecordOf(data)
        bucket_name == BucketOf(record)
        file_path == FilePathOf(record)
        Respond(content, status) ==
            [start |-> FALSE, response |-> HttpResponse(content, status),
             file_path |-> <<>>, bucket_name |-> ""]
    IN IF request.method # "POST" THEN Respond("Invalid request method.", 400)
       ELSE IF data = NotJson THEN Respond("Invalid JSON payload.", 400)
       ELSE IF record = Null THEN Respond("Internal server error", 500)
       ELSE IF file_path = <<>> \/ bucket_name = ""
       THEN Respond("Missing file_path or bucket_name.", 400)
       ELSE IF already_processed(file_path) THEN Respond("", 204)
       ELSE IF ~is_pdf(file_path) THEN Respond("Skipping non-PDF file", 200)
       ELSE IF settings.SUPABASE_URL = "" \/ settings.SUPABASE_SERVICE_KEY = ""
       THEN Respond("Server configuration error", 500)
       ELSE [start |-> TRUE, response |-> HttpResponse("Workflow started", 200),
             file_path |-> file_path, bucket_name |-> bucket_name]

\* the payload of a storage event: one record of the objects table
Payload(key, bucket_key, name_key, bucket, name) ==
    ("type" :> "INSERT") @@ (key :> ((bucket_key :> bucket) @@ (name_key :> name)))

\* paths of events that start no workflow: outputs of the pipeline, a PDF
\* file in the output folder, a file that is no PDF, no path
SkippedPaths ==
    {<<"json-output", "/", "a", ".", "json">>, <<"json-output", "/", "a", ".", "pdf">>,
     <<"a", ".", "json">>, <<>>}

\* the requests the view receives from outside: events of a PDF file in the
\* shapes the view reads, events of other paths, a request that is no POST,
\* a body that is no JSON, a null record and a record without bucket
Requests ==
    {[method |-> "POST", body |-> Payload("record", "bucket_id", "name", Bucket, path)] :
       path \in SkippedPaths \cup {<<"a", ".", "pdf">>}}
    \cup {[method |-> "POST",
            body |-> Payload("Record", "bucket_name", "path", Bucket, <<"A", ".", "PDF">>)],
          [method |-> "POST",
           body |-> ("record" :> <<>>) @@
                    Payload("new", "bucket_id", "name", Bucket, <<"a", ".", "json">>)],
          [method |-> "GET",
           body |-> Payload("record", "bucket_id", "name", Bucket, <<"a", ".", "pdf">>)],
          [method |-> "POST", body |-> NotJson],
          [method |-> "POST", body |-> ("new" :> Null)],
          [method |-> "POST",
           body |-> Payload("record", "bucket_id", "name", "", <<"a", ".", "pdf">>)]}

\* the requests the storage sends for the objects the activity stored
Notifications ==
    {[method |-> "POST",
      body |-> Payload("record", "bucket_id", "name", e.bucket_id, e.name)] :
       e \in events}

\* the response goes to the sender: the storage keeps those to the
\* requests it sent for the objects the activity stored
Notify(request, response) ==
    notified' = IF request \in Notifications
                THEN notified \cup {[request |-> request, response |-> response]}
                ELSE notified

\* supabase_webhook(request): for a new PDF file start_temporal_workflow
\* starts a workflow, unless that raises
supabase_webhook ==
    \E request \in Requests \cup Notifications :
        LET view == View(request)
            started == {k \in 1..MaxWorkflows : workflows[k].status # "none"}
        IN /\ IF view.start
              THEN \/ /\ Cardinality(started) < MaxWorkflows
                      /\ workflows' = [workflows EXCEPT ![Cardinality(started) + 1] =
                            Run(view.file_path, view.bucket_name, settings.SUPABASE_URL,
                                settings.SUPABASE_SERVICE_KEY, request)]
                      /\ UNCHANGED faults
                      /\ Notify(request, view.response)
                   \/ /\ Fault
                      /\ UNCHANGED workflows
                      /\ Notify(request, HttpResponse("Failed to start workflow", 500))
              ELSE /\ UNCHANGED <<workflows, faults>>
                   /\ Notify(request, view.response)
           /\ UNCHANGED <<objects, events, activity, clock, settings, batches>>

\* the service deployed, with or without its settings
ServiceInit ==
    /\ Processors /\ applied = NotApplied
    /\ Idle
    /\ objects \in {Uploaded, Processed}
    /\ settings \in {Deployed, [Deployed EXCEPT !.SUPABASE_SERVICE_KEY = ""]}

ServiceNext ==
    \/ supabase_webhook
    \/ \E k \in 1..MaxWorkflows : WorkflowStep(k) \/ ActivityStep(k)
ServiceSpec == ServiceInit /\ [][ServiceNext]_vars

\* ------------------------------------------------------ batch_upload_files
\* an entry of "files": the keys it has, and their values
FileInfo(keys, path, bucket) == [keys |-> keys, path |-> path, bucket |-> bucket]

\* file_info.get('path') and file_info.get('bucket', 'linkledger')
PathOf(file_info) == IF "path" \in file_info.keys THEN file_info.path ELSE <<>>
BucketNameOf(file_info) ==
    IF "bucket" \in file_info.keys THEN file_info.bucket ELSE "linkledger"

\* file_path.replace('/', '-').replace('.', '-').replace(' ', '-')
safe_filename(file_path) ==
    [k \in 1..Len(file_path) |->
        IF file_path[k] \in {"/", ".", " "} THEN "-" ELSE file_path[k]]

\* the workflow id start_temporal_workflow_with_metadata builds for a file of
\* a batch: the batch, the position and the safe file name
workflow_id(batch_id, position, file_path) ==
    <<"batch", batch_id, position, safe_filename(file_path)>>

\* the branch of the loop body an entry takes before the workflow is started
Refusal(file_info) ==
    LET file_path == PathOf(file_info)
    IN IF file_path = <<>> THEN "Missing file path"
       ELSE IF ~is_pdf(file_path) THEN "Not a PDF file"
       ELSE IF already_processed(file_path) THEN "Already processed"
       ELSE "none"

\* mutant: the loop is left at the first workflow that fails to start
Queue_StopsAtFailure(files, n, failing, batch_id, out) ==
    IF n > Len(files) \/ \E j \in 1..(n - 1) : j \in failing
    THEN out
    ELSE LET file_info == files[n]
             file_path == PathOf(file_info)
             refusal == Refusal(file_info)
         IN IF refusal = "Missing file path"
            THEN [out EXCEPT !.failed_files =
                     Append(@, [file |-> file_info, error |-> refusal])]
            ELSE IF refusal # "none"
            THEN [out EXCEPT !.failed_files =
                     Append(@, [file |-> file_path, error |-> refusal])]
            ELSE IF n \in failing
            THEN [out EXCEPT !.failed_files =
                     Append(@, [file |-> file_path,
                                error |-> "Failed to connect to Temporal"])]
            ELSE [out EXCEPT !.queued_workflows =
                     Append(@, [file |-> file_path,
                                workflow_id |-> workflow_id(batch_id, n - 1, file_path),
                                status |-> "queued", position |-> n])]

\* one pass of the loop body of batch_upload_files for files[n] (n is
\* enumerate's index plus one): the entry goes to failed_files when it has
\* no path, is no PDF file or lies in the output folder, or when starting
\* its workflow raises (the positions in failing); otherwise to
\* queued_workflows
Queue(files, n, failing, batch_id, out) ==
    IF n > Len(files)
    THEN out
    ELSE LET file_info == files[n]
             file_path == PathOf(file_info)
             refusal == Refusal(file_info)
         IN IF refusal = "Missing file path"
            THEN [out EXCEPT !.failed_files =
                     Append(@, [file |-> file_info, error |-> refusal])]
            ELSE IF refusal # "none"
            THEN [out EXCEPT !.failed_files =
                     Append(@, [file |-> file_path, error |-> refusal])]
            ELSE IF n \in failing
            THEN [out EXCEPT !.failed_files =
                     Append(@, [file |-> file_path,
                                error |-> "Failed to connect to Temporal"])]
            ELSE [out EXCEPT !.queued_workflows =
                     Append(@, [file |-> file_path,
                                workflow_id |-> workflow_id(batch_id, n - 1, file_path),
                                status |-> "queued", position |-> n])]

\* for idx, file_info in enumerate(files): the two lists after the loop
RECURSIVE Enumerate(_, _, _, _, _)
Enumerate(files, n, failing, batch_id, out) ==
    IF n > Len(files) THEN out
    ELSE Enumerate(files, n + 1, failing, batch_id,
                   Queue(files, n, failing, batch_id, out))

\* JsonResponse(data, status)
JsonResponse(data, status) == [status_code |-> status, data |-> data]

\* the response of batch_upload_files after the loop
response_data(batch_id, files, out) ==
    [batch_id |-> batch_id, total_files |-> Len(files),
     queued |-> Len(out.queued_workflows), failed |-> Len(out.failed_files),
     workflows |-> out.queued_workflows, failures |-> out.failed_files,
     status |-> "processing"]

\* the entries a batch upload names: PDF files of the bucket in both cases,
\* with and without the bucket, a file that is no PDF, a PDF file of the
\* output folder, an entry without path and one with an empty path
FileInfos ==
    {FileInfo({"path", "bucket"}, <<"a", ".", "pdf">>, Bucket),
     FileInfo({"path"}, <<"dir", "/", "a", ".", "PDF">>, ""),
     FileInfo({"path", "bucket"}, <<"a", ".", "json">>, Bucket),
     FileInfo({"path", "bucket"}, <<"json-output", "/", "a", ".", "pdf">>, Bucket),
     FileInfo({"bucket"}, <<>>, Bucket),
     FileInfo({"path", "bucket"}, <<>>, Bucket)}

\* the requests batch_upload_files receives: a list of up to MaxUpload
\* entries (none included), a body without 'files', a body that is no JSON
\* and a request that is no POST
UploadRequests ==
    {[method |-> "POST", body |-> [keys |-> {"files"}, files |-> files]] :
        files \in UNION {[1..n -> FileInfos] : n \in 0..MaxUpload}}
    \cup {[method |-> "POST", body |-> [keys |-> {}, files |-> <<>>]],
          [method |-> "POST", body |-> NotJson],
          [method |-> "GET", body |-> [keys |-> {"files"}, files |-> <<>>]]}

\* the runs start_workflow creates for the queued entries, in their order
Started(files, queued_workflows, request) ==
    [k \in 1..Len(queued_workflows) |->
        Run(queued_workflows[k].file,
            BucketNameOf(files[queued_workflows[k].position]),
            settings.SUPABASE_URL, settings.SUPABASE_SERVICE_KEY, request)]

\* batch_upload_files(request): 405 for a method other than POST, 400 for
\* a body that is no JSON and for no files; otherwise the loop over the
\* entries, in which starting a workflow may raise, and the 200 response
batch_upload_files ==
    /\ applied.fn = "none"
    /\ LET request == applied.arg
           data == request.body
       IN IF request.method # "POST"
          THEN /\ applied' = [applied EXCEPT !.fn = "batch_upload_files",
                                 !.ret = JsonResponse("Method Not Allowed", 405)]
               /\ UNCHANGED <<workflows, faults>>
          ELSE IF data = NotJson
          THEN /\ applied' = [applied EXCEPT !.fn = "batch_upload_files",
                                 !.ret = JsonResponse("Invalid JSON payload", 400)]
               /\ UNCHANGED <<workflows, faults>>
          ELSE IF "files" \notin data.keys \/ data.files = <<>>
          THEN /\ applied' = [applied EXCEPT !.fn = "batch_upload_files",
                                 !.ret = JsonResponse("No files provided", 400)]
               /\ UNCHANGED <<workflows, faults>>
          ELSE \E failing \in SUBSET {k \in 1..Len(data.files) :
                                         Refusal(data.files[k]) = "none"} :
                  LET out == Enumerate(data.files, 1, failing, "uuid4",
                                       [queued_workflows |-> <<>>,
                                        failed_files |-> <<>>])
                  IN /\ faults + Cardinality(failing) <= MaxFaults
                     /\ faults' = faults + Cardinality(failing)
                     /\ workflows' = workflows \o
                            Started(data.files, out.queued_workflows, request)
                     /\ applied' = [applied EXCEPT !.fn = "batch_upload_files",
                            !.ret = JsonResponse(
                                       response_data("uuid4", data.files, out), 200)]
    /\ UNCHANGED <<documents, jobs, companies, currencies, invoices, metadata, nextId,
                   pc, results, batch, idx, loc, needs_rollback, outcomes, runs,
                   ncalls, submitted, lastSuccess, call>>
    /\ UNCHANGED <<objects, events, activity, clock, settings, notified>>

\* the service deployed and no run started; a request arrives
UploadInit ==
    /\ Processors
    /\ objects = Uploaded /\ settings = Deployed
    /\ events = {} /\ workflows = <<>> /\ activity = <<>>
    /\ clock = 0 /\ faults = 0 /\ notified = {}
    /\ \E request \in UploadRequests :
          applied = [fn |-> "none", arg |-> request, ret |-> None]

UploadNext == batch_upload_files
UploadSpec == UploadInit /\ [][UploadNext]_vars

\* ------------------------------------------------------------ properties
Last(seq) == seq[Len(seq)]
Range(seq) == {seq[k] : k \in 1..Len(seq)}
Entries(r) == Len(r.successful) + Len(r.failed) + Len(r.skipped)
EntriesFor(r, f) ==
      Cardinality({k \in 1..Len(r.successful) : r.successful[k].file = f})
    + Cardinality({k \in 1..Len(r.failed) : r.failed[k].file = f})
    + Cardinality({k \in 1..Len(r.skipped) : r.skipped[k].file = f})
Occurrences(files, f) == Cardinality({k \in 1..Len(files) : files[k] = f})

UniqueMessage == "UNIQUE constraint failed: invoices.supplier_id, invoices.invoice_number"

\* process_single_file of worker w ends in this step (returns or raises)
AttemptEnds(w) == Len(outcomes'[w]) = Len(outcomes[w]) + 1

\* C1: when a batch call over N files returns, the three buckets hold N
\* entries, total is N, and every input file has as many entries as it occurs
\* in the input, whatever was called before on the same processor.
C1_ReportPartitionsInputs ==
    \A w \in Workers :
        (pc[w] = "returned" /\ call[w].kind # "document") =>
            /\ Entries(results[w]) = Len(batch[w])
            /\ results[w].total = Len(batch[w])
            /\ \A f \in Paths : EntriesFor(results[w], f) = Occurrences(batch[w], f)

C3_LoserRelinks ==
    \A w \in Workers : loc[w].exc # UniqueMessage

\* C4: for every (supplier VAT number, invoice_number) of a successful attempt
\* there is exactly one Invoice row, and it references the Document of the
\* latest successful attempt with that pair.
C4_OneInvoiceLatestDocument ==
    \A t \in lastSuccess :
        LET rows == {i \in Committed(invoices) :
                        /\ Row(companies, i.supplier).vat_number = t[1]
                        /\ i.invoice_number = t[2]}
        IN /\ Cardinality(rows) = 1
           /\ \A i \in rows : i.document = t[3]

\* an Invoice created for one Document has been re-linked to a later one
C4_RelinkReached ==
    \E i \in Committed(invoices) :
        \E m \in Committed(metadata) :
            /\ m.field_name = "invoice_number"
            /\ m.field_value = i.invoice_number
            /\ m.document # i.document
            /\ \E t \in lastSuccess : t[3] = i.document

\* the file is on disk and a committed Document with its filename is completed
AlreadyCompleted(file_path) ==
    /\ file_path \in DOMAIN FileSystem
    /\ \E d \in Committed(documents) :
          d.filename = OriginalFilename(file_path) /\ d.status = "completed"

\* C5: process_single_file on a file whose filename has a completed Document
\* is Skipped with reason 'Already processed', changes no row of the store
\* and runs no extraction.
C5_SkipIsNoOp ==
    [][\A w \in Workers :
          (/\ pc[w] = "loop" /\ idx[w] <= Len(batch[w])
           /\ (idx'[w] # idx[w] \/ pc'[w] # pc[w])
           /\ AlreadyCompleted(batch[w][idx[w]]))
          => /\ store' = store
             /\ results'[w] = [results[w] EXCEPT !.skipped =
                    Append(@, [file |-> batch[w][idx[w]], reason |-> "Already processed"])]
             /\ Last(outcomes'[w]) = "Skipped"
             /\ loc'[w].trace = {}]_vars

\* a file was skipped while a completed Document and its Invoice are stored
C5_SkipReached ==
    \E w \in Workers :
        /\ Len(results[w].skipped) > 0
        /\ Len(outcomes[w]) > 0
        /\ Last(outcomes[w]) = "Skipped"
        /\ AlreadyCompleted(loc[w].file_path)

\* C6: when an attempt ends Failed, the committed Company, Currency, Invoice
\* and ExtractedMetadata rows are those from before the attempt.
C6_FailedLeavesNoRows ==
    [][\A w \in Workers :
          (AttemptEnds(w) /\ Last(outcomes'[w]) = "Failed")
          => /\ Committed(companies') = Committed(companies)
             /\ Committed(currencies') = Committed(currencies)
             /\ Committed(invoices') = Committed(invoices)
             /\ Committed(metadata') = Committed(metadata)]_vars

\* C7: no exception leaves process_single_file, so no batch call is aborted.
C7_NoExceptionEscapes ==
    \A w \in Workers : pc[w] # "raised"

\* the committed Documents whose status this step has set
StatusUpdated ==
    {d \in Committed(documents') :
        ~\E e \in Committed(documents) : e.id = d.id /\ e.status = d.status}

RanTwice(w) ==
    /\ pc[w] = "returned"
    /\ runs[w][1].returned /\ runs[w][2].returned
    /\ runs[w][1].files = runs[w][2].files

NoNumberAttempt(w) ==
    /\ pc[w] \in InTransaction \cup {"loop", "returned"}
    /\ pc[w] \in {"loop", "returned"} => idx[w] > 1
    /\ loc[w].document # 0
    /\ find_invoice_number(FileSystem[loc[w].file_path]) = None

\* C10: when no invoice-number rule matches, the attempt runs no other
\* extraction and no party resolution, writes no Company, Currency, Invoice
\* or metadata row, and ends Failed with 'No invoice number found' and its
\* Document in status failed.
C10_NoNumberFails ==
    \A w \in Workers :
        NoNumberAttempt(w) =>
            /\ loc[w].trace = {"find_invoice_number"}
            /\ loc[w].supplier = 0 /\ loc[w].customer = 0 /\ loc[w].invoice = 0
            /\ \A r \in companies \cup invoices : r.by # w
            /\ \A r \in currencies \cup metadata : r.by # w
            /\ loc[w].exc = "No invoice number found"
            /\ \/ pc[w] = "except"
               \/ /\ pc[w] \in {"loop", "returned"}
                  /\ Last(outcomes[w]) = "Failed"
                  /\ Last(results[w].failed) =
                        [file |-> loc[w].file_path, error |-> "No invoice number found"]
                  /\ Row(documents, loc[w].document).status = "failed"
                  /\ Row(documents, loc[w].document).by = 0

\* a file with no pages has been recorded as failed
C10_NoNumberReached ==
    \E w \in Workers :
        /\ NoNumberAttempt(w) /\ pc[w] = "loop"
        /\ FileSystem[loc[w].file_path].pages = 0
        /\ Row(documents, loc[w].document).status = "failed"

\* C11: an attempt that fails after its Document was created, and returns,
\* leaves that Document committed in status failed with the exception's
\* message, its ProcessingJob with success false, the same message and a
\* completion timestamp, and a failed entry with the same message.
C11_FailureRecorded ==
    [][\A w \in Workers :
          (AttemptEnds(w) /\ Last(outcomes'[w]) = "Failed" /\ loc[w].document # 0)
          => /\ loc[w].exc # None
             /\ \E d \in Committed(documents') :
                   /\ d.id = loc[w].document
                   /\ d.status = "failed"
                   /\ d.error_message = loc[w].exc
                   /\ d.processing_completed
             /\ \E j \in Committed(jobs') :
                   /\ j.id = loc[w].job /\ j.document = loc[w].document
                   /\ ~j.success
                   /\ j.error_details = loc[w].exc
                   /\ j.completed_at
             /\ Last(results'[w].failed) =
                   [file |-> loc[w].file_path, error |-> loc[w].exc]]_vars

\* an attempt failed inside process_invoice (the date) and was recorded
C11_FailureReached ==
    \E w \in Workers :
        /\ pc[w] = "loop" /\ Len(outcomes[w]) > 0 /\ Last(outcomes[w]) = "Failed"
        /\ loc[w].exc = "day is out of range for month"
        /\ \E d \in Committed(documents) :
              d.id = loc[w].document /\ d.error_message = loc[w].exc

\* C12: when an attempt ends Success, the Document it created is committed
\* as completed with a completion timestamp, its ProcessingJob has success
\* true, a completion timestamp and the number of OCR pages, and exactly one
\* Invoice references the Document.
C12_SuccessRecorded ==
    [][\A w \in Workers :
          (AttemptEnds(w) /\ Last(outcomes'[w]) = "Success")
          => /\ \E d \in Committed(documents') :
                   /\ d.id = loc[w].document
                   /\ d.status = "completed"
                   /\ d.processing_completed
             /\ \E j \in Committed(jobs') :
                   /\ j.id = loc[w].job /\ j.document = loc[w].document
                   /\ j.success /\ j.completed_at
                   /\ j.pages_processed = FileSystem[loc[w].file_path].pages
             /\ Cardinality({i \in Committed(invoices') :
                                i.document = loc[w].document}) = 1]_vars

\* a file of two pages ended Success by re-linking the stored Invoice
C12_SuccessReached ==
    \E w \in Workers :
        /\ pc[w] = "loop" /\ Len(outcomes[w]) > 0 /\ Last(outcomes[w]) = "Success"
        /\ loc[w].relinked
        /\ FileSystem[loc[w].file_path].pages = 2
        /\ \E j \in Committed(jobs) : j.id = loc[w].job /\ j.pages_processed = 2

\* C13: an attempt that found an invoice number (and was not skipped) ends
\* Success, whatever the date, the amounts and the parties of the text are.
C13_NumberFoundSucceeds ==
    [][\A w \in Workers :
          (AttemptEnds(w) /\ loc[w].invoice_number # None)
          => Last(outcomes'[w]) = "Success"]_vars

\* C14: the committed store holds at most one Company per vat_number, also
\* when the attempts run in two concurrent workers.
C14_OneCompanyPerVat ==
    \A c, e \in Committed(companies) : c.vat_number = e.vat_number => c.id = e.id

\* C15: a Company that is the supplier of a stored Invoice has is_supplier,
\* and one that is the customer of a stored Invoice has is_customer: a
\* Company created with one flag only gains the other one when it is later
\* resolved in the other role.
C15_FlagsFollowRoles ==
    \A i \in Committed(invoices) :
        /\ \A c \in Committed(companies) : c.id = i.supplier => c.is_supplier
        /\ \A c \in Committed(companies) : c.id = i.customer => c.is_customer

\* C16: a Document is created in status processing and its status only moves
\* from processing to completed or to failed; a completed or failed Document
\* keeps its status and is never removed, whatever is retried or reprocessed.
C16_StatusOnlyForward ==
    [][/\ \A d \in documents' :
             (~\E e \in documents : e.id = d.id) => d.status = "processing"
       /\ \A e \in documents :
             \A d \in documents' :
                e.id = d.id =>
                   \/ d.status = e.status
                   \/ e.status = "processing" /\ d.status \in {"completed", "failed"}
       /\ \A e \in documents :
             e.status \in {"completed", "failed"} => \E d \in documents' : d.id = e.id]_vars

\* a file that had failed was attempted again and ingested: its first
\* Document is still failed, its second one is completed
C16_RetryReached ==
    \E d, e \in Committed(documents) :
        /\ d.file_path = e.file_path
        /\ d.status = "failed" /\ e.status = "completed"

\* C17: a ProcessingJob that has a completion timestamp is never changed or
\* removed, and every attempt that gets past the skip check (a retry or a
\* reprocessing of a file included) adds one new ProcessingJob for its
\* Document and touches no other.
C17_JobsAppendOnly ==
    [][/\ \A j \in jobs : j.completed_at => j \in jobs'
       /\ \A w \in Workers :
             (pc[w] = "loop" /\ pc'[w] \in InTransaction /\ loc'[w].document # 0)
             => \E j \in jobs' :
                   /\ j.id = loc'[w].job /\ j.document = loc'[w].document
                   /\ ~j.completed_at
                   /\ ~\E k \in jobs : k.id = j.id
                   /\ jobs' = jobs \cup {j}]_vars

\* a failed Document was reprocessed: the file has two Documents, each with
\* its own completed ProcessingJob
C17_RetryReached ==
    \E j, k \in Committed(jobs) :
        /\ j.id # k.id /\ j.document # k.document
        /\ j.completed_at /\ k.completed_at
        /\ \E w \in Workers : call[w].kind \in {"failed", "document"}
        /\ \E d, e \in Committed(documents) :
              d.id = j.document /\ e.id = k.document /\ d.file_path = e.file_path

\* the committed Documents in status failed with the given file_path
FailedWithPath(docs, f) ==
    {d \in Committed(docs) : d.status = "failed" /\ d.file_path = f}

\* a reprocessing call of w has returned with a report that partitions the
\* items it processed
ReprocessReported(w) ==
    (pc[w] = "returned" /\ call[w].kind \in {"failed", "document"})
    => /\ Len(outcomes[w]) = Len(batch[w])
       /\ Entries(results[w]) = Len(batch[w])
       /\ \A f \in Paths : EntriesFor(results[w], f) = Occurrences(batch[w], f)
       /\ Len(results[w].successful) =
             Cardinality({k \in 1..Len(batch[w]) : outcomes[w][k] = "Success"})
       /\ Len(results[w].skipped) =
             Cardinality({k \in 1..Len(batch[w]) : outcomes[w][k] = "Skipped"})
       /\ call[w].kind = "failed" => results[w].total = Len(batch[w])
       /\ call[w].kind = "document" => Len(batch[w]) = 1

Zero(d) == ~d.is_none /\ IsZero(d)
C19_NoFabricatedZero ==
    [][\A i \in invoices' :
          (~\E e \in invoices : e.id = i.id)
          => \A d \in documents' :
                d.id = i.document
                => LET amounts == find_amounts(FileSystem[d.file_path])
                   IN /\ Zero(i.total_amount) => Zero(amounts.total)
                      /\ Zero(i.subtotal) => Zero(amounts.subtotal)
                      /\ Zero(i.tax_amount) =>
                            \E t \in Phrases(FileSystem[d.file_path].text) :
                               IsTaxLine(Chars(t)) /\ HasZero(Chars(t))]_vars

\* the positions of the rules of the list that match in the text
Matching(patterns, text) ==
    {k \in 1..Len(patterns) : \E n \in 1..Len(text) : text[n] \in DOMAIN patterns[k].matches}

\* C20: find_pattern returns None when no rule of the list matches in the
\* text, and otherwise what the first matching rule of the list yields: group
\* 1 of its match when the rule has a group, the whole match when it has
\* none.  Hence find_invoice_number returns the vendor id AEU-INV-... of a
\* text that holds one, whatever labelled number the text holds too.
C20_FirstMatchingRuleWins ==
    /\ applied.fn = "find_pattern" =>
          LET patterns == applied.arg.patterns
              text == applied.arg.text
              matching == Matching(patterns, text)
          IN IF matching = {} THEN applied.ret = None
             ELSE LET k == CHOOSE j \in matching : \A i \in matching : j <= i
                  IN \E n \in 1..Len(text) :
                        /\ text[n] \in DOMAIN patterns[k].matches
                        /\ \A m \in 1..(n - 1) : text[m] \notin DOMAIN patterns[k].matches
                        /\ applied.ret = IF patterns[k].groups = 0
                                         THEN patterns[k].matches[text[n]][1]
                                         ELSE patterns[k].matches[text[n]][2]
    /\ applied.fn = "find_invoice_number" =>
          /\ AmazonId \in Phrases(applied.arg.text) => applied.ret = AmazonId
          /\ applied.ret = None <=>
                Phrases(applied.arg.text)
                    \cap {AmazonId, "Rechnungsnummer: RE-1",
                          "Invoice Number: INV-7", "Factura Nr: F-9"} = {}

\* find_invoice_number was applied to a text with a vendor id and a labelled
\* invoice number
C20_VendorIdPreferred ==
    /\ applied.fn = "find_invoice_number"
    /\ applied.arg.text = <<"Invoice Number: INV-7", AmazonId>>
    /\ applied.ret = AmazonId

\* C21: a tax that find_amounts returns is either 0.00, from a tax line
\* holding '0,00', or strictly less than the total of the same result: no
\* tax is returned without a total it is below.
C21_TaxBelowTotal ==
    (applied.fn = "find_amounts" /\ ~applied.ret.raised /\ ~applied.ret.tax.is_none)
    => \/ /\ IsZero(applied.ret.tax)
          /\ \E t \in Phrases(applied.arg) : IsTaxLine(Chars(t)) /\ HasZero(Chars(t))
       \/ /\ applied.ret.has_total /\ ~applied.ret.total.is_none
          /\ Less(applied.ret.tax, applied.ret.total)

\* the first number written in the text: from the first digit on, the digits
\* and the separators that a digit follows
RECURSIVE NumberEnd(_, _)
NumberEnd(text, i) ==
    IF i <= Len(text) /\ text[i] \in Digits THEN NumberEnd(text, i + 1)
    ELSE IF i < Len(text) /\ text[i] \in Separators /\ text[i + 1] \in Digits
    THEN NumberEnd(text, i + 1)
    ELSE i
FirstNumber(text) ==
    LET digits == {i \in 1..Len(text) : text[i] \in Digits}
    IN IF digits = {} THEN <<>>
       ELSE LET start == CHOOSE i \in digits : \A j \in digits : i <= j
            IN SubSeq(text, start, NumberEnd(text, start) - 1)

\* digits in groups of three divided by '.', the first group of one to three
RECURSIVE Grouped(_)
Grouped(whole) ==
    LET point == Find(whole, ".")
    IN IF point > Len(whole) THEN Len(whole) = 3
       ELSE point = 4 /\ Grouped(SubSeq(whole, 5, Len(whole)))

\* a number in the European notation: the whole part plain or in groups of
\* three divided by '.', then at most one ',' with the decimals
European(number) ==
    LET comma == Find(number, ",")
        whole == SubSeq(number, 1, comma - 1)
        decimals == SubSeq(number, comma + 1, Len(number))
        point == Find(whole, ".")
    IN /\ number # <<>>
       /\ Find(decimals, ",") > Len(decimals) /\ Find(decimals, ".") > Len(decimals)
       /\ \/ point > Len(whole)
          \/ point \in 2..4 /\ Grouped(SubSeq(whole, point + 1, Len(whole)))

\* the same number, whatever zeros lead the whole part or end the decimals
RECURSIVE NoLeadingZeros(_)
NoLeadingZeros(digits) ==
    IF digits # <<>> /\ Head(digits) = "0" THEN NoLeadingZeros(Tail(digits)) ELSE digits
RECURSIVE NoTrailingZeros(_)
NoTrailingZeros(digits) ==
    IF digits # <<>> /\ digits[Len(digits)] = "0"
    THEN NoTrailingZeros(SubSeq(digits, 1, Len(digits) - 1)) ELSE digits
SameNumber(d, whole, decimals) ==
    /\ ~d.is_none
    /\ NoLeadingZeros(d.int) = NoLeadingZeros(whole)
    /\ NoTrailingZeros(d.frac) = NoTrailingZeros(decimals)

\* C22: parse_amount returns None for a text without a digit, and for a text
\* whose first number is written in the European notation the value of that
\* number, '.' dividing the thousands and ',' before the decimals.
C22_ParsesEuropeanAmount ==
    applied.fn = "parse_amount"
    => LET number == FirstNumber(applied.arg)
           comma == Find(number, ",")
       IN /\ number = <<>> => applied.ret.is_none
          /\ European(number)
                => SameNumber(applied.ret, Without(SubSeq(number, 1, comma - 1), "."),
                              SubSeq(number, comma + 1, Len(number)))

\* C23: parse_date returns a date of the calendar or None for every string;
\* it raises nothing and does not return the date of today.
C23_ParseDateNeverRaises ==
    applied.fn = "parse_date"
    => /\ ~applied.ret.raised
       /\ \/ applied.ret.value = NoDate
          \/ /\ applied.ret.value # Today
             /\ ValidDate(applied.ret.value[1], applied.ret.value[2], applied.ret.value[3])

\* the words of a line with one blank between two of them
RECURSIVE Spaced(_)
Spaced(strings) ==
    IF strings = <<>> THEN ""
    ELSE IF Len(strings) = 1 THEN strings[1]
    ELSE Spaced(SubSeq(strings, 1, Len(strings) - 1)) \o " " \o strings[Len(strings)]

\* C24: flattening yields one text block per OCR line, in page, block and
\* line order, whatever the confidence of the line: its text is the words
\* of the line with one blank between them, and the full text is the texts
\* of the lines with one blank between them.  A payload without pages
\* yields no text block and the empty full text.
C24_OneBlockPerLine ==
    applied.fn = "_extract_text_blocks"
    => LET lines == applied.arg.lines
           text_blocks == applied.ret.text_blocks
       IN /\ Len(text_blocks) = Len(lines)
          /\ \A k \in 1..Len(lines) :
                /\ text_blocks[k].text = Spaced(lines[k].words)
                /\ text_blocks[k].confidence = lines[k].objectness_score
          /\ applied.ret.full_text = Spaced([k \in 1..Len(lines) |-> Spaced(lines[k].words)])
          /\ ~applied.arg.has_pages
                => text_blocks = <<>> /\ applied.ret.full_text = ""

\* a structure of two pages was flattened, with a line the OCR is not
\* confident of before a line of the second page
C24_TwoPagesFlattened ==
    /\ applied.fn = "_extract_text_blocks"
    /\ Len(applied.arg.pages) = 2
    /\ Len(applied.arg.pages[1]) = 1 /\ Len(applied.arg.pages[1][1]) = 1
    /\ Len(applied.arg.pages[2]) = 1 /\ Len(applied.arg.pages[2][1]) = 1
    /\ Len(applied.ret.text_blocks) = 2
    /\ applied.ret.text_blocks[1].confidence = 1
    /\ applied.ret.full_text = "Amazon Zahlbetrag 107,16"

\* C25: for a text that holds AEU-INV-IT-2020-1016055, the lines
\* 'Zahlbetrag 107,16' and 'USt. Gesamt 0,00', 'Amazon' and 'SENSIDEV', the
\* extraction yields that invoice number, the total 107.16, the tax 0.00, the
\* supplier Amazon EU and the customer SC SENSIDEV SRL.
C25_AmazonScenario ==
    applied.fn = "extraction"
    => /\ applied.ret.invoice_number = "AEU-INV-IT-2020-1016055"
       /\ ~applied.ret.amounts.raised
       /\ applied.ret.amounts.has_total
       /\ applied.ret.amounts.total = Dec(<<"1", "0", "7">>, <<"1", "6">>)
       /\ applied.ret.amounts.tax = Dec(<<"0">>, <<"0", "0">>)
       /\ applied.ret.supplier.name = "Amazon EU S.a r.l."
       /\ applied.ret.customer.name = "SC SENSIDEV SRL"

\* the extraction ran on a text where the tax line, which the last total
\* rule matches too, and a labelled invoice number come first
C25_ScenarioExtracted ==
    /\ applied.fn = "extraction"
    /\ applied.arg[1] = "Invoice Number: INV-7"
    /\ applied.arg[2] = "USt. Gesamt 0,00"
    /\ applied.ret.amounts.total = Dec(<<"1", "0", "7">>, <<"1", "6">>)

\* the OCR results the bucket holds of a file
ResultsOf(bucket, filename) ==
    {key \in DOMAIN objects :
       /\ key[1] = bucket
       /\ objects[key].bytes = "json"
       /\ objects[key].original_filename = filename}

\* C26: when an execution of process_file_activity returns, the first for its
\* file or a later one, the bucket holds exactly one OCR result of that
\* file, at json-output/<basename>.json, and it is this execution's output.
C26_OneResultObject ==
    \A k \in 1..Len(activity) :
        activity[k].pc = "returned"
        => LET args == activity[k].args
               key == <<args.bucket_name, json_file_path(args.filename)>>
           IN /\ ResultsOf(args.bucket_name, args.filename) = {key}
              /\ objects[key] = activity[k].json_data

\* an execution returned after it replaced the output an earlier execution
\* had stored for the same file
C26_ResultReplaced ==
    \E k \in 1..Len(activity) : \E e \in events :
        /\ activity[k].pc = "returned"
        /\ e.bucket_id = activity[k].args.bucket_name
        /\ e.metadata.original_filename = activity[k].args.filename
        /\ e.metadata.processing_timestamp
              < activity[k].json_data.processing_timestamp

\* the steps an execution has made
Made(a, step, how) == \E i \in 1..Len(a.steps) : a.steps[i] = <<step, how>>

\* the message of the failed upload says 'already exists', in any case
AlreadyExistsCondition(a) ==
    a.upload_error \in {"The resource already exists", "Duplicate: Already Exists"}

ErrorOf(step) ==
    CASE step = "validate" -> "Missing required arguments for file processing"
      [] step = "create_client" -> "Supabase initialization failed"
      [] step = "download" -> "Failed to download file"
      [] step = "check_content" -> "Downloaded file is empty"
      [] step = "ocr_predictor" -> "OCR model initialization failed"
      [] step = "ocr" -> "OCR PROCESSING FAILED"
      [] step = "upload" -> "Failed to upload JSON result"
      [] step = "update" -> "Failed to update existing file"

\* C28: an execution of process_file_activity ends with a success message
\* or with FileProcessingError; the error is that of the step that failed,
\* and after a failed step no step is made (but the update that retries an
\* upload, see C27): an execution that returned made every step, and
\* stored its output.
C28_SuccessOrFileProcessingError ==
    \A k \in 1..Len(activity) :
        LET a == activity[k]
            n == Len(a.steps)
        IN /\ \A i \in 1..n :
                 a.steps[i][2] = "failed" /\ i < n
                 => a.steps[i][1] = "upload" /\ a.steps[i + 1][1] = "update"
           /\ a.pc = "raised"
                => /\ a.steps[n][2] = "failed"
                   /\ a.outcome = <<"FileProcessingError", ErrorOf(a.steps[n][1])>>
           /\ a.pc = "returned"
                => /\ a.outcome = <<"str", "Successfully processed">>
                   /\ a.steps[n] = <<"return", "ok">>
                   /\ \A step \in {"validate", "create_client", "download",
                                    "check_content", "ocr_predictor", "ocr"} :
                         Made(a, step, "ok")
                   /\ Made(a, "upload", "ok") \/ Made(a, "update", "ok")
           /\ a.pc \in {"none", "validate", "create_client", "download",
                         "check_content", "ocr_predictor", "ocr", "upload",
                         "update", "return", "returned", "raised"}

\* an execution raised for the empty file it downloaded, and made no step
\* after that
C28_EmptyDownloadRaised ==
    \E k \in 1..Len(activity) :
        /\ activity[k].pc = "raised"
        /\ activity[k].outcome = <<"FileProcessingError", "Downloaded file is empty">>
        /\ activity[k].steps[Len(activity[k].steps)] = <<"check_content", "failed">>

\* C29: a run of FileProcessingWorkflow makes at most three attempts of the
\* activity and none after one that succeeded; it completes with the return
\* value of that attempt, and it fails, with the error of the attempt, only
\* when its third attempt has failed.
C29_AtMostThreeAttempts ==
    \A k \in 1..MaxWorkflows :
        LET run == workflows[k]
            n == Len(run.attempts)
        IN /\ n <= 3
           /\ \A i \in 1..n : run.attempts[i] = "str" => i = n
           /\ activity[k].pc # "none"
                => run.status = "running" /\ n < 3 /\ "str" \notin Phrases(run.attempts)
           /\ run.status = "completed"
                => /\ n >= 1 /\ run.attempts[n] = "str"
                   /\ run.result = <<"str", "Successfully processed">>
           /\ run.status = "failed"
                => /\ n = 3 /\ run.attempts[n] # "str"
                   /\ run.result = run.outcome /\ run.result[1] # "str"

\* a run failed with the error of its third attempt
C29_FailedAfterThirdAttempt ==
    \E k \in 1..MaxWorkflows :
        /\ workflows[k].status = "failed"
        /\ Len(workflows[k].attempts) = 3
        /\ workflows[k].result = <<"FileProcessingError", "Failed to download file">>

\* the path ends in .pdf, whatever the case of its letters
EndsInPdf(path) ==
    /\ Len(path) >= 2
    /\ path[Len(path) - 1] = "."
    /\ path[Len(path)] \in {"pdf", "PDF", "Pdf"}

\* the path lies in the output folder
InOutputFolder(path) == Len(path) >= 2 /\ path[1] = "json-output" /\ path[2] = "/"

\* C30: every run was started by a POST request for a path that ends in .pdf
\* and does not lie in json-output/; every object the activity stored lies
\* in json-output/ under a .json name, and a request the storage sent for
\* one was answered 204 and started no run.
C30_OnlyNewPdfStartsWorkflow ==
    /\ \A k \in 1..MaxWorkflows :
          workflows[k].status # "none"
          => /\ workflows[k].request.method = "POST"
             /\ EndsInPdf(workflows[k].args.filename)
             /\ ~InOutputFolder(workflows[k].args.filename)
             /\ workflows[k].request \notin Notifications
    /\ \A e \in events :
          /\ InOutputFolder(e.name)
          /\ e.name[Len(e.name)] = "json" /\ e.name[Len(e.name) - 1] = "."
    /\ \A n \in notified : n.response.status_code = 204

\* a run completed, and the request the storage sent for the output it
\* stored was answered 204
C30_OutputEventSkipped ==
    /\ \E k \in 1..MaxWorkflows : workflows[k].status = "completed"
    /\ \E n \in notified :
          /\ n.response.status_code = 204
          /\ n.request.body["record"]["name"] = <<"json-output", "/", "a", ".", "json">>

\* the request was a POST with a JSON body that names at least one file
BatchHandled ==
    /\ applied.fn = "batch_upload_files"
    /\ applied.arg.method = "POST"
    /\ applied.arg.body # NotJson
    /\ "files" \in applied.arg.body.keys
    /\ applied.arg.body.files # <<>>

\* the positions of the files list the response reports as queued
QueuedPositions(data) == {data.workflows[q].position : q \in 1..Len(data.workflows)}

\* the failures of the response that name the entry without path, and those
\* that name the path
FailuresOfEntry(data, file_info) ==
    {f \in 1..Len(data.failures) :
        IF data.failures[f].error = "Missing file path"
        THEN data.failures[f].file = file_info ELSE FALSE}
FailuresOfPath(data, file_path) ==
    {f \in 1..Len(data.failures) :
        IF data.failures[f].error # "Missing file path"
        THEN data.failures[f].file = file_path ELSE FALSE}

\* C31: for a non-empty files list batch_upload_files answers 200 with
\* queued + failed = total_files = len(files); every position of the list is
\* either queued (once, under its own path) or counted once among the
\* failures of its entry; and every file whose workflow could be started is
\* queued unless starting its own workflow failed, wherever in the list
\* another start failed.
C31_EveryEntryQueuedOrFailed ==
    BatchHandled
    => LET files == applied.arg.body.files
           data == applied.ret.data
           queued == QueuedPositions(data)
           rest == (1..Len(files)) \ queued
       IN /\ applied.ret.status_code = 200
          /\ data.total_files = Len(files)
          /\ data.queued = Len(data.workflows) /\ data.failed = Len(data.failures)
          /\ data.queued + data.failed = data.total_files
          /\ queued \subseteq 1..Len(files)
          /\ Cardinality(queued) = Len(data.workflows)
          /\ \A q \in 1..Len(data.workflows) :
                /\ data.workflows[q].file = PathOf(files[data.workflows[q].position])
                /\ data.workflows[q].status = "queued"
          /\ \A j \in 1..Len(files) :
                IF PathOf(files[j]) = <<>>
                THEN Cardinality({i \in rest : files[i] = files[j]})
                        = Cardinality(FailuresOfEntry(data, files[j]))
                ELSE Cardinality({i \in rest : PathOf(files[i]) = PathOf(files[j])})
                        = Cardinality(FailuresOfPath(data, PathOf(files[j])))
          /\ Cardinality({j \in rest : /\ EndsInPdf(PathOf(files[j]))
                                       /\ ~InOutputFolder(PathOf(files[j]))}) = faults
          /\ Len(workflows) = Len(data.workflows)
          /\ \A q \in 1..Len(workflows) :
                workflows[q].args.filename = data.workflows[q].file

\* the workflow of the first file failed to start and the second file was
\* queued
C31_QueuedAfterFailedStart ==
    /\ BatchHandled
    /\ Len(applied.arg.body.files) >= 2
    /\ Len(applied.ret.data.failures) = 1
    /\ applied.ret.data.failures[1].error = "Failed to connect to Temporal"
    /\ FailuresOfPath(applied.ret.data, PathOf(applied.arg.body.files[1])) = {1}
    /\ \E q \in 1..Len(applied.ret.data.workflows) :
          applied.ret.data.workflows[q].position = 2

\* C32: an attempt on a file of the disk is Skipped exactly when a Document
\* with the file's filename is completed, whatever OCR file that Document
\* was made from and whatever failed or processing Documents carry the
\* filename; so no two completed Documents ever share a filename, and of two
\* OCR files of one original file only the first is ingested.
C32_SkipByFilenameOnly ==
    [][\A w \in Workers :
          (/\ pc[w] = "loop" /\ idx[w] <= Len(batch[w])
           /\ (idx'[w] # idx[w] \/ pc'[w] # pc[w])
           /\ batch[w][idx[w]] \in DOMAIN FileSystem)
          => /\ (AttemptEnds(w) /\ Last(outcomes'[w]) = "Skipped")
                <=> \E d \in documents :
                       /\ d.filename = OriginalFilename(batch[w][idx[w]])
                       /\ d.status = "completed"
             /\ \A d, e \in documents' :
                   (d.status = "completed" /\ e.status = "completed"
                    /\ d.filename = e.filename) => d.id = e.id]_vars

\* an OCR file was skipped because another OCR file with its filename had
\* been ingested, and no Invoice carries its number
C32_OtherFileSkipped ==
    /\ Len(outcomes[1]) > 0 /\ Last(outcomes[1]) = "Skipped"
    /\ loc[1].file_path = "g.json"
    /\ \E d \in Committed(documents) :
          /\ d.filename = "scan_a.pdf" /\ d.status = "completed"
          /\ d.file_path = "a.json"
    /\ \A i \in invoices : i.invoice_number # "INV-7"
    /\ \A d \in documents : d.file_path # "g.json"

\* the committed Invoices among the rows that reference the Document
InvoicesIn(rows, d) == {i \in Committed(rows) : i.document = d.id}
InvoicesOf(d) == InvoicesIn(invoices, d)

\* the Document was completed before the step
WasCompleted(d) == \E e \in documents : e.id = d.id /\ e.status = "completed"

\* C33 as stated: every completed Document is referenced by exactly one
\* Invoice.
C33_CompletedHasOneInvoice ==
    \A d \in documents :
        d.status = "completed" => Cardinality(InvoicesOf(d)) = 1

\* C33 as amended: a completed Document is referenced by at most one
\* Invoice: by exactly one when its attempt ends Success, and from then on
\* by the same one until a later successful attempt re-links that Invoice to
\* its own Document, after which it is referenced by none.
C33_CompletedHasItsInvoiceUntilRelinked ==
    [][\A d \in documents' :
          d.status = "completed"
          => /\ Cardinality(InvoicesIn(invoices', d)) <= 1
             /\ ~WasCompleted(d) => Cardinality(InvoicesIn(invoices', d)) = 1
             /\ (WasCompleted(d) /\ InvoicesIn(invoices', d) # InvoicesOf(d))
                => /\ InvoicesIn(invoices', d) = {}
                   /\ \E e \in documents' :
                         /\ e.status = "completed" /\ ~WasCompleted(e)
                         /\ {i.id : i \in InvoicesIn(invoices', e)}
                               = {i.id : i \in InvoicesOf(d)}
             /\ (WasCompleted(d) /\ InvoicesOf(d) = {})
                => InvoicesIn(invoices', d) = {}]_vars

\* an Invoice was re-linked: the Document it was created for is completed
\* and referenced by no Invoice, while a second Invoice keeps its Document
C33_RelinkedAway ==
    /\ \E d \in documents : d.status = "completed" /\ InvoicesOf(d) = {}
    /\ \E i, j \in Committed(invoices) :
          /\ i.document # j.document
          /\ \E m \in Committed(metadata) :
                /\ m.field_name = "invoice_number"
                /\ m.field_value = i.invoice_number /\ m.document # i.document

\* C34: when an attempt that took the re-link branch ends, the stored
\* Invoice differs from before in its document only (date, parties,
\* currency and amounts as first stored) and no other Invoice changed; the
\* attempt ran neither find_amounts nor find_date and wrote no
\* ExtractedMetadata; its Success entry carries the number, total, supplier
\* and customer of the stored Invoice.
C34_RelinkChangesDocumentOnly ==
    [][\A w \in Workers :
          (pc[w] = "complete" /\ loc[w].relinked /\ AttemptEnds(w))
          => LET stored == Row(invoices, loc[w].existing_invoice)
                 entry == Last(results'[w].successful)
             IN /\ invoices' = (invoices \ {stored})
                       \cup {[stored EXCEPT !.document = loc[w].document]}
                /\ metadata' = metadata
                /\ \A m \in metadata' : m.document # loc[w].document
                /\ loc[w].trace \cap {"find_amounts", "find_date"} = {}
                /\ Len(results'[w].successful) = Len(results[w].successful) + 1
                /\ entry.file = loc[w].file_path
                /\ entry.invoice_number = stored.invoice_number
                /\ entry.total = stored.total_amount
                /\ entry.supplier = Row(companies, stored.supplier).name
                /\ entry.customer = Row(companies, stored.customer).name]_vars

\* d.json, which names no total and no customer and whose date does not
\* parse, was re-linked to the Invoice of a.json: its Success entry reports
\* the stored total and customer
C34_StoredValuesReported ==
    /\ Len(results[1].successful) > 0
    /\ Len(outcomes[1]) > 0 /\ Last(outcomes[1]) = "Success"
    /\ LET entry == Last(results[1].successful)
       IN /\ entry.file = "d.json"
          /\ entry.total = Dec(<<"1", "0", "7">>, <<"1", "6">>)
          /\ entry.customer = "SC SENSIDEV SRL"
          /\ ~find_amounts(FileSystem["d.json"]).has_total
          /\ find_company_info(FileSystem["d.json"], "customer").name = None
    /\ \E i \in Committed(invoices) :
          /\ i.invoice_date = Date(2020, 11, 9)
          /\ \E d \in Committed(documents) : d.id = i.document /\ d.file_path = "d.json"

\* the Documents with status failed
Failed(docs) == {d \in docs : d.status = "failed"}

\* C35: a Document with status failed is never changed or removed by a step
\* of a batch call, of reprocess_failed or of reprocess_document, so the
\* number of failed Documents never decreases.
C35_FailedDocumentsFrozen ==
    [][/\ \A d \in Failed(documents) : d \in documents'
       /\ Cardinality(Failed(documents')) >= Cardinality(Failed(documents))]_vars

\* a file failed, was reprocessed and ingested: its first Document is still
\* failed beside the completed one
C35_FailedBesideCompleted ==
    /\ call[1].kind \in {"failed", "document"}
    /\ \E d, e \in Committed(documents) :
          /\ d.status = "failed" /\ e.status = "completed"
          /\ d.file_path = e.file_path /\ d.id \in call[1].failed
          /\ \E i \in Committed(invoices) : i.document = e.id

\* the Documents made from the file among those that were failed when
\* reprocess_failed was called, and the attempts the call made on the file
FailedAtCall(w, f) == {d \in documents : d.id \in call[w].failed /\ d.file_path = f}
AttemptsOn(w, f) == {j \in 1..Len(batch[w]) : batch[w][j] = f}

\* C36: when reprocess_failed returns, it has attempted every file once per
\* Document of the file that was failed at the call; a file with k such
\* Documents whose k attempts all Failed again now has 2k failed Documents.
C36_OneAttemptPerFailedDocument ==
    \A w \in Workers :
        (pc[w] = "returned" /\ call[w].kind = "failed")
        => \A f \in DOMAIN FileSystem :
              LET k == Cardinality(FailedAtCall(w, f))
              IN /\ Cardinality(AttemptsOn(w, f)) = k
                 /\ (\A j \in AttemptsOn(w, f) : outcomes[w][j] = "Failed")
                    => Cardinality({d \in Failed(Committed(documents)) :
                                       d.file_path = f}) = 2 * k

\* a file with two failed Documents was attempted twice by one
\* reprocess_failed call and has four failed Documents
C36_TwoBecomeFour ==
    /\ pc[1] = "returned" /\ call[1].kind = "failed"
    /\ Cardinality(FailedAtCall(1, "c.json")) = 2
    /\ batch[1] = <<"c.json", "c.json">>
    /\ outcomes[1] = <<"Failed", "Failed">>
    /\ Cardinality({d \in Failed(Committed(documents)) : d.file_path = "c.json"}) = 4

\* C37: no two Documents with the same filename are completed, in any
\* interleaving of the two workers.
C37_OneCompletedPerFilename ==
    \A d, e \in documents :
        (d.status = "completed" /\ e.status = "completed" /\ d.filename = e.filename)
        => d.id = e.id

\* the text of the file names neither Amazon nor SENSIDEV
Unrecognised(file_path) ==
    /\ "Amazon" \notin Phrases(FileSystem[file_path].text)
    /\ "SENSIDEV" \notin Phrases(FileSystem[file_path].text)

\* the Invoices of the Company UNKNOWN with the number
UnknownInvoices(number) ==
    {i \in invoices : /\ i.invoice_number = number
                      /\ Row(companies, i.supplier).vat_number = "UNKNOWN"}

\* C38: once the parties of a file that names neither Amazon nor SENSIDEV
\* are resolved, supplier and customer are one Company, with vat_number
\* 'UNKNOWN', the only one with that number; such files with one invoice
\* number share one Invoice, and an attempt on one of them that finds the
\* Invoice stored re-links it.
C38_UnknownPartiesShareCompany ==
    /\ Cardinality({c \in companies : c.vat_number = "UNKNOWN"}) <= 1
    /\ \A i \in invoices : Cardinality(UnknownInvoices(i.invoice_number)) <= 1
    /\ \A w \in Workers :
          (/\ pc[w] \in {"check", "relink", "currency", "create", "complete"}
           /\ Unrecognised(loc[w].file_path))
          => /\ loc[w].supplier = loc[w].customer
             /\ Row(companies, loc[w].supplier).vat_number = "UNKNOWN"
             /\ (pc[w] = "complete"
                 /\ \E i \in Committed(invoices) :
                       /\ i.invoice_number = loc[w].invoice_number
                       /\ i.document # loc[w].document)
                => loc[w].relinked

\* h.json was re-linked to the Invoice RE-1 that was created for f.json, a
\* file of another sender: one Invoice, one Company UNKNOWN as both parties
C38_SecondUnknownRelinked ==
    /\ Len(outcomes[1]) > 0 /\ Last(outcomes[1]) = "Success"
    /\ loc[1].file_path = "h.json" /\ loc[1].relinked
    /\ \E i \in Committed(invoices) :
          /\ invoices = {i}
          /\ i.invoice_number = "RE-1" /\ i.supplier = i.customer
          /\ Row(companies, i.supplier).vat_number = "UNKNOWN"
          /\ \E d \in Committed(documents) : d.id = i.document /\ d.file_path = "h.json"
          /\ \E d \in Committed(documents) :
                d.file_path = "f.json" /\ d.status = "completed"

\* the ProcessingJobs among the rows that are linked to the Document
JobsIn(rows, d) == {j \in rows : j.document = d.id}

\* C39: the step of an attempt that loads its file and is not Skipped adds
\* exactly one Document (in status processing) and exactly one ProcessingJob,
\* linked to it; a skipped attempt, an attempt whose file cannot be opened
\* and every later step add none; and in every state each Document has
\* exactly one ProcessingJob and each ProcessingJob its Document.
C39_OneJobPerDocument ==
    [][/\ \A w \in Workers :
             (pc[w] = "loop" /\ idx[w] <= Len(batch[w])
              /\ (idx'[w] # idx[w] \/ pc'[w] # pc[w]))
             => IF batch[w][idx[w]] \notin DOMAIN FileSystem
                   \/ AlreadyCompleted(batch[w][idx[w]])
                THEN documents' = documents /\ jobs' = jobs
                ELSE \E d \in documents' \ documents :
                        /\ documents' = documents \cup {d}
                        /\ d.status = "processing"
                        /\ d.file_path = batch[w][idx[w]]
                        /\ \E j \in jobs' \ jobs :
                              jobs' = jobs \cup {j} /\ j.document = d.id
       /\ (\A w \in Workers : pc[w] # "loop")
             => /\ {d.id : d \in documents'} \subseteq {d.id : d \in documents}
                /\ {j.id : j \in jobs'} \subseteq {j.id : j \in jobs}
       /\ \A d \in documents' : Cardinality(JobsIn(jobs', d)) = 1
       /\ \A j \in jobs' : \E d \in documents' : d.id = j.document]_vars

\* a file was attempted twice: two Documents of it, each with its own job
C39_TwoAttemptsTwoJobs ==
    \E d, e \in Committed(documents) :
        /\ d.id # e.id /\ d.file_path = e.file_path
        /\ Cardinality(JobsIn(jobs, d)) = 1 /\ Cardinality(JobsIn(jobs, e)) = 1
        /\ JobsIn(jobs, d) # JobsIn(jobs, e)
        /\ Cardinality(jobs) = Cardinality(documents)

\* the positions of the lines of the text that set the subtotal when none is
\* set yet, and of the lines that set the tax, given the total of the result
SubtotalLines(text) ==
    {i \in 1..Len(text) :
        IsSubtotalLine(Chars(text[i])) /\ Truthy(parse_amount(Chars(text[i])))}
TaxLines(text, amounts) ==
    {i \in 1..Len(text) :
        /\ IsTaxLine(Chars(text[i]))
        /\ \/ HasZero(Chars(text[i]))
           \/ /\ Truthy(parse_amount(Chars(text[i])))
              /\ ~(amounts.has_total /\ amounts.total.is_none)
              /\ TaxBound(parse_amount(Chars(text[i])), amounts)}
TaxOfLine(line) ==
    IF HasZero(Chars(line)) THEN Dec(<<"0">>, <<"0", "0">>)
    ELSE parse_amount(Chars(line))

\* C40: the subtotal find_amounts returns is the amount of the first
\* subtotal line of the text, whatever subtotal lines follow it, and the tax
\* it returns is that of the last tax line of the text, a zero-tax marker or
\* an amount below the bound, whatever tax lines precede it; without such a
\* line the key is not set.
C40_FirstSubtotalLastTax ==
    (applied.fn = "find_amounts" /\ ~applied.ret.raised)
    => LET text == applied.arg
           subtotals == SubtotalLines(text)
           taxes == TaxLines(text, applied.ret)
       IN /\ IF subtotals = {} THEN applied.ret.subtotal.is_none
             ELSE LET first == CHOOSE i \in subtotals : \A j \in subtotals : i <= j
                  IN applied.ret.subtotal = parse_amount(Chars(text[first]))
          /\ IF taxes = {} THEN applied.ret.tax.is_none
             ELSE LET last == CHOOSE i \in taxes : \A j \in taxes : j <= i
                  IN applied.ret.tax = TaxOfLine(text[last])

\* find_amounts was applied to a text with a total whose zero-tax marker is
\* followed by a tax line with an amount below the total: the tax is the
\* amount
C40_ZeroMarkerOverwritten ==
    /\ applied.fn = "find_amounts"
    /\ applied.arg = <<"Zahlbetrag 107,16", "USt. Gesamt 0,00", "USt. Gesamt 19,00">>
    /\ applied.ret.tax = Dec(<<"1", "9">>, <<"0", "0">>)
====
